---- MODULE Spec2Model ----
(***************************************************************************)
(* Model of the Open Targets cancer / MeSH pipeline                        *)
(*   src/src/pipeline/extract_mesh.py     parser and hierarchy extractor   *)
(*   src/src/pipeline/extract_diseases.py disease filter, xref extraction  *)
(*   src/src/pipeline/build_crosswalk.py  crosswalk and aggregation        *)
(*   src/src/pipeline/add_entrez.py       identifier remapping             *)
(*                                                                         *)
(* Python strings are TLA+ strings, used as sequences of characters.       *)
(* A pandas DataFrame is a sequence of records (its rows, in row order).   *)
(* A score is an integer number of tenths (8 stands for 0.8): the code     *)
(* only compares scores and takes their maximum, which is exact on floats. *)
(***************************************************************************)
EXTENDS Integers, Sequences, FiniteSets, TLC

VARIABLES
    pc,               \* position of the function or stage being run
    lines,            \* parse_mesh_file: the lines read from the file so far
    current,          \* parse_mesh_file: the accumulator dict
    records,          \* parse_mesh_file: the list of emitted records
    prefix,           \* extract_c04_hierarchy: the tree prefix passed
    mesh_hierarchy,   \* extract_c04_hierarchy: the returned table
    diseases,         \* the disease index
    filtered,         \* filter_cancer_diseases: the returned table
    cancer_diseases,  \* extract_mesh_ids: the returned table
    associations,     \* the association table
    crosswalk,        \* build_disease_mesh_crosswalk: the returned table
    final,            \* build_final_dataset: the returned table
    gene2ensembl,     \* the rows of gene2ensembl.gz
    entrez_map,       \* load_gene2ensembl: the returned table
    output,           \* add_entrez.run: the final four-column table
    files,            \* the workspace: path -> content of every file present
    previous_output,  \* the final table of an earlier run on the same inputs
    force,            \* download_mesh, download_gene2ensembl: the force argument
    downloads         \* the number of urlretrieve requests the current call has made

vars == <<pc, lines, current, records, prefix, mesh_hierarchy, diseases,
          filtered, cancer_diseases, associations, crosswalk, final,
          gene2ensembl, entrez_map, output, files, previous_output, force, downloads>>

meshVars    == <<lines, current, records, prefix, mesh_hierarchy>>
diseaseVars == <<diseases, filtered, cancer_diseases>>
joinVars    == <<associations, crosswalk, final>>
entrezVars  == <<gene2ensembl, entrez_map, output>>
runVars     == <<files, previous_output>>
netVars     == <<force, downloads>>

(***************************************************************************)
(* Python string and list primitives                                       *)
(***************************************************************************)

\* The characters the model's strings use, in code-point order.
Ascii == " *.0123456789:=ABCDEFGHIJKLMNOPQRSTUVWXYZ_abcdefghijklmnopqrstuvwxyz"

UpperCase == "ABCDEFGHIJKLMNOPQRSTUVWXYZ"
LowerCase == "abcdefghijklmnopqrstuvwxyz"

CharAt(s, i) == SubSeq(s, i, i)

\* Position of character c in string s, 0 when absent.
IndexOf(c, s) ==
    IF \E i \in 1..Len(s) : CharAt(s, i) = c
    THEN CHOOSE i \in 1..Len(s) : CharAt(s, i) = c
    ELSE 0

Ord(c) == IndexOf(c, Ascii)

\* str.startswith
StartsWith(s, p) == Len(s) >= Len(p) /\ SubSeq(s, 1, Len(p)) = p

\* s[n:]
SliceFrom(s, n) == SubSeq(s, n + 1, Len(s))

\* str.strip() on the whitespace the model's lines carry
RECURSIVE LStrip(_)
LStrip(s) == IF Len(s) > 0 /\ CharAt(s, 1) = " " THEN LStrip(SliceFrom(s, 1)) ELSE s

RECURSIVE RStrip(_)
RStrip(s) ==
    IF Len(s) > 0 /\ CharAt(s, Len(s)) = " " THEN RStrip(SubSeq(s, 1, Len(s) - 1)) ELSE s

Strip(s) == RStrip(LStrip(s))

\* str.lower()
LowerChar(c) ==
    IF IndexOf(c, UpperCase) > 0 THEN CharAt(LowerCase, IndexOf(c, UpperCase)) ELSE c

RECURSIVE Lower(_)
Lower(s) == IF Len(s) = 0 THEN "" ELSE LowerChar(CharAt(s, 1)) \o Lower(SliceFrom(s, 1))

\* str.count('.')
RECURSIVE CountDots(_)
CountDots(s) ==
    IF Len(s) = 0 THEN 0
    ELSE (IF CharAt(s, 1) = "." THEN 1 ELSE 0) + CountDots(SliceFrom(s, 1))

\* Python's < on str: lexicographic by code point.
RECURSIVE StrLess(_, _)
StrLess(a, b) ==
    IF Len(b) = 0 THEN FALSE
    ELSE IF Len(a) = 0 THEN TRUE
    ELSE IF CharAt(a, 1) = CharAt(b, 1) THEN StrLess(SliceFrom(a, 1), SliceFrom(b, 1))
    ELSE Ord(CharAt(a, 1)) < Ord(CharAt(b, 1))

StrLeq(a, b) == a = b \/ StrLess(a, b)

\* Sequences over S of length at most n.
SeqsUpTo(S, n) == UNION {[1..k -> S] : k \in 0..n}

Range(s) == {s[i] : i \in DOMAIN s}

\* max() and min() of a non-empty set of integers
SetMax(S) == CHOOSE m \in S : \A n \in S : n <= m
SetMin(S) == CHOOSE m \in S : \A n \in S : m <= n

\* sorted(S): the integers of S in ascending order
RECURSIVE Ascending(_)
Ascending(S) == IF S = {} THEN <<>> ELSE <<SetMin(S)>> \o Ascending(S \ {SetMin(S)})

(***************************************************************************)
(* A Python dict with string keys: a function on the keys present.         *)
(***************************************************************************)
EmptyDict == [k \in {} |-> ""]

HasKey(d, k) == k \in DOMAIN d

DictSet(d, k, v) == [x \in (DOMAIN d) \cup {k} |-> IF x = k THEN v ELSE d[x]]

(***************************************************************************)
(* extract_mesh.parse_mesh_file                                            *)
(***************************************************************************)

\* Largest number of lines a modelled descriptor file holds.
MaxLines == 6

\* The lines a modelled descriptor file is made of.
LineSet == {"*NEWRECORD", "UI = D1", "UI = D2", " MH = Ab ", "MN = C04.588.1",
            "MN = C05.1", "AN = x"}

\* Mutant of Complete: the tree-number test is forgotten.
CompleteIdOnly(d) == HasKey(d, "UI") /\ d["UI"] # ""

\* current.get('UI') and current.get('MN'): both present and truthy
Complete(d) ==
    /\ HasKey(d, "UI") /\ d["UI"] # ""
    /\ HasKey(d, "MN") /\ Len(d["MN"]) > 0

\* if current.get('UI') and current.get('MN'): records.append(current)
Flush(recs, d) == IF Complete(d) THEN Append(recs, d) ELSE recs

\* Mutant of FreshRecord: only the tree-number list is cleared (current['MN'] = []).
StaleRecord == DictSet(current, "MN", <<>>)

\* the dict a *NEWRECORD marker starts: current = {'MN': []}
FreshRecord == [k \in {"MN"} |-> <<>>]

\* for line in f: line = line.strip(); if line == '*NEWRECORD': ...
ReadNewRecord(line) ==
    /\ pc = "reading"
    /\ Len(lines) < MaxLines
    /\ Strip(line) = "*NEWRECORD"
    /\ lines' = Append(lines, line)
    /\ records' = Flush(records, current)
    /\ current' = FreshRecord
    /\ UNCHANGED <<pc, prefix, mesh_hierarchy, diseaseVars, joinVars, entrezVars, runVars, netVars>>

\* Mutant of ReadUI: the first identifier of a record is kept.
ReadUIKeepFirst(line) ==
    /\ pc = "reading"
    /\ Len(lines) < MaxLines
    /\ Strip(line) # "*NEWRECORD"
    /\ StartsWith(Strip(line), "UI = ")
    /\ lines' = Append(lines, line)
    /\ current' = IF HasKey(current, "UI") THEN current
                  ELSE DictSet(current, "UI", SliceFrom(Strip(line), 5))
    /\ UNCHANGED <<pc, records, prefix, mesh_hierarchy, diseaseVars, joinVars, entrezVars, runVars, netVars>>

\* elif line.startswith('UI = '): current['UI'] = line[5:]
ReadUI(line) ==
    /\ pc = "reading"
    /\ Len(lines) < MaxLines
    /\ Strip(line) # "*NEWRECORD"
    /\ StartsWith(Strip(line), "UI = ")
    /\ lines' = Append(lines, line)
    /\ current' = DictSet(current, "UI", SliceFrom(Strip(line), 5))
    /\ UNCHANGED <<pc, records, prefix, mesh_hierarchy, diseaseVars, joinVars, entrezVars, runVars, netVars>>

\* elif line.startswith('MH = '): current['MH'] = line[5:]
ReadMH(line) ==
    /\ pc = "reading"
    /\ Len(lines) < MaxLines
    /\ Strip(line) # "*NEWRECORD"
    /\ ~StartsWith(Strip(line), "UI = ")
    /\ StartsWith(Strip(line), "MH = ")
    /\ lines' = Append(lines, line)
    /\ current' = DictSet(current, "MH", SliceFrom(Strip(line), 5))
    /\ UNCHANGED <<pc, records, prefix, mesh_hierarchy, diseaseVars, joinVars, entrezVars, runVars, netVars>>

\* elif line.startswith('MN = '): current['MN'].append(line[5:])
\* current['MN'] raises KeyError when no *NEWRECORD has created the list.
ReadMN(line) ==
    /\ pc = "reading"
    /\ Len(lines) < MaxLines
    /\ Strip(line) # "*NEWRECORD"
    /\ ~StartsWith(Strip(line), "UI = ")
    /\ ~StartsWith(Strip(line), "MH = ")
    /\ StartsWith(Strip(line), "MN = ")
    /\ lines' = Append(lines, line)
    /\ IF HasKey(current, "MN")
       THEN /\ current' = DictSet(current, "MN",
                                  Append(current["MN"], SliceFrom(Strip(line), 5)))
            /\ pc' = pc
       ELSE /\ current' = current
            /\ pc' = "KeyError"
    /\ UNCHANGED <<records, prefix, mesh_hierarchy, diseaseVars, joinVars, entrezVars, runVars, netVars>>

\* a line no branch of the if/elif chain matches is skipped
ReadOther(line) ==
    /\ pc = "reading"
    /\ Len(lines) < MaxLines
    /\ Strip(line) # "*NEWRECORD"
    /\ ~StartsWith(Strip(line), "UI = ")
    /\ ~StartsWith(Strip(line), "MH = ")
    /\ ~StartsWith(Strip(line), "MN = ")
    /\ lines' = Append(lines, line)
    /\ UNCHANGED <<pc, current, records, prefix, mesh_hierarchy, diseaseVars, joinVars,
                   entrezVars, runVars, netVars>>

\* end of file: the last record is flushed and the list returned
EndOfFile ==
    /\ pc = "reading"
    /\ records' = Flush(records, current)
    /\ pc' = "parsed"
    /\ UNCHANGED <<lines, current, prefix, mesh_hierarchy, diseaseVars, joinVars, entrezVars, runVars, netVars>>

Idle ==
    /\ prefix = ""
    /\ mesh_hierarchy = <<>>
    /\ diseases = <<>>
    /\ filtered = <<>>
    /\ cancer_diseases = <<>>
    /\ associations = <<>>
    /\ crosswalk = <<>>
    /\ final = <<>>
    /\ gene2ensembl = <<>>
    /\ entrez_map = <<>>
    /\ output = <<>>
    /\ files = <<>>
    /\ previous_output = <<>>
    /\ force = FALSE
    /\ downloads = 0

InitParse ==
    /\ pc = "reading"
    /\ lines = <<>>
    /\ current = EmptyDict
    /\ records = <<>>
    /\ Idle

NextParse ==
    \/ \E line \in LineSet : ReadNewRecord(line)
    \/ \E line \in LineSet : ReadUI(line)
    \/ \E line \in LineSet : ReadMH(line)
    \/ \E line \in LineSet : ReadMN(line)
    \/ \E line \in LineSet : ReadOther(line)
    \/ EndOfFile

SpecParse == InitParse /\ [][NextParse]_vars

\* Largest number of lines of a modelled descriptor text made of field lines only.
MaxRecordLines == 5

\* Marker and field lines with two values for every field.
RecordLineSet == {"*NEWRECORD", "UI = D1", "UI = D2", "MH = Ab", "MH = Cd",
                  "MN = C04.588.1", "MN = C05.1"}

\* parse_mesh_file on a text of marker and field lines (no line is skipped)
NextRecord ==
    \/ \E line \in RecordLineSet : Len(lines) < MaxRecordLines /\ ReadNewRecord(line)
    \/ \E line \in RecordLineSet : Len(lines) < MaxRecordLines /\ ReadUI(line)
    \/ \E line \in RecordLineSet : Len(lines) < MaxRecordLines /\ ReadMH(line)
    \/ \E line \in RecordLineSet : Len(lines) < MaxRecordLines /\ ReadMN(line)
    \/ EndOfFile

SpecRecord == InitParse /\ [][NextRecord]_vars

(***************************************************************************)
(* The records a descriptor text denotes: its lines split at the marker    *)
(* lines, each segment read on its own.                                    *)
(***************************************************************************)
IsMarker(l) == Strip(l) = "*NEWRECORD"

IsField(l, tag) == ~IsMarker(l) /\ StartsWith(Strip(l), tag)

FieldValue(l) == SliceFrom(Strip(l), 5)

Markers(ls) == {i \in 1..Len(ls) : IsMarker(ls[i])}

\* A segment is named by the index of the marker that opens it; 0 names the
\* lines before the first marker.
SegStarts(ls) == {0} \cup Markers(ls)

SegEnd(ls, a) ==
    IF \E m \in Markers(ls) : m > a
    THEN CHOOSE m \in Markers(ls) : m > a /\ \A n \in Markers(ls) : n > a => m <= n
    ELSE Len(ls) + 1

SegFields(ls, a, tag) == {i \in (a + 1)..(SegEnd(ls, a) - 1) : IsField(ls[i], tag)}

SegHasId(ls, a)   == SegFields(ls, a, "UI = ") # {}
SegHasTree(ls, a) == SegFields(ls, a, "MN = ") # {}

SegTrees(ls, a) ==
    LET idx == Ascending(SegFields(ls, a, "MN = "))
    IN  [k \in 1..Len(idx) |-> FieldValue(ls[idx[k]])]

SegId(ls, a) == FieldValue(ls[SetMax(SegFields(ls, a, "UI = "))])

SegRecord(ls, a) ==
    LET base == [k \in {"UI", "MN"} |-> IF k = "UI" THEN SegId(ls, a) ELSE SegTrees(ls, a)]
    IN  IF SegFields(ls, a, "MH = ") = {} THEN base
        ELSE DictSet(base, "MH", FieldValue(ls[SetMax(SegFields(ls, a, "MH = "))]))

\* The segments that have an identifier and at least one tree number, in file order.
CompleteSegs(ls) == Ascending({a \in SegStarts(ls) : SegHasId(ls, a) /\ SegHasTree(ls, a)})

ExpectedRecords(ls) ==
    LET segs == CompleteSegs(ls) IN [k \in 1..Len(segs) |-> SegRecord(ls, segs[k])]

LastSeg(ls) == SetMax(SegStarts(ls))

(***************************************************************************)
(* Claims on parse_mesh_file                                               *)
(***************************************************************************)

C5_LastRecordIncluded ==
    (pc # "reading" /\ SegHasId(lines, LastSeg(lines)) /\ SegHasTree(lines, LastSeg(lines)))
        => /\ pc = "parsed"
           /\ Len(records) > 0
           /\ records[Len(records)] = SegRecord(lines, LastSeg(lines))

\* C6: every record returned holds the identifier, name and tree numbers of the lines
\* of its own segment and of no other: the returned list is the list of complete
\* segments, each read on its own (no name where the segment has no MH line, only the
\* segment's own MN values), and an input that opens with a marker never raises.
C6_RecordsScoped ==
    /\ pc = "parsed" => records = ExpectedRecords(lines)
    /\ (Len(lines) > 0 /\ IsMarker(lines[1])) => pc # "KeyError"

\* C6 witness: a two-record text, each record opened by a marker, parsed into exactly
\* two records with different identifiers and different tree numbers.
C6_Witness ==
    /\ pc = "parsed"
    /\ Cardinality(Markers(lines)) = 2
    /\ Len(records) = 2
    /\ records[1]["UI"] # records[2]["UI"]
    /\ records[1]["MN"] # records[2]["MN"]
    /\ Len(records[2]["MN"]) = 1

\* the values of the tag lines of the segment opened at a, in file order
SegValues(ls, a, tag) ==
    LET idx == {i \in 1..Len(ls) : (i > a) /\ IsField(ls[i], tag)
                                    /\ (\A m \in Markers(ls) : m > a => i < m)}
        RECURSIVE InOrder(_)
        InOrder(S) == IF S = {} THEN <<>>
                      ELSE LET i == CHOOSE x \in S : \A y \in S : x <= y
                           IN  <<FieldValue(ls[i])>> \o InOrder(S \ {i})
    IN  InOrder(idx)

\* C24: every record returned has one identifier, that of the last UI line of its
\* segment, one name, that of the last MH line of its segment (none without an MH
\* line), and as tree paths the values of all the MN lines of its segment in file
\* order, duplicates included.
C24_SingleIdSingleNameAllTrees ==
    pc = "parsed" =>
        \A k \in 1..Len(records) :
            LET a  == CompleteSegs(lines)[k]
                ui == SegValues(lines, a, "UI = ")
                mh == SegValues(lines, a, "MH = ")
            IN  /\ records[k]["UI"] = ui[Len(ui)]
                /\ IF Len(mh) = 0 THEN ~HasKey(records[k], "MH")
                   ELSE HasKey(records[k], "MH") /\ records[k]["MH"] = mh[Len(mh)]
                /\ records[k]["MN"] = SegValues(lines, a, "MN = ")

\* C24 witness: one record with the lines UI = D1, UI = D2, MN = C05.1, MN = C05.1,
\* returned with the identifier D2 and the tree path twice.
C24_Witness ==
    /\ pc = "parsed"
    /\ lines = <<"*NEWRECORD", "UI = D1", "UI = D2", "MN = C05.1", "MN = C05.1">>
    /\ records = <<[k \in {"UI", "MN"} |->
                      IF k = "UI" THEN "D2" ELSE <<"C05.1", "C05.1">>]>>

(***************************************************************************)
(* extract_mesh.extract_c04_hierarchy                                      *)
(***************************************************************************)

\* DataFrame.sort_values on several columns (a stable lexsort), and every other
\* stable sort: the rows of seq ordered by the comparison lt (lt[i][j] when row i
\* sorts before row j), ties in their original order.
StableSort(seq, lt) ==
    LET n == Len(seq)
        rank(i) == 1 + Cardinality({j \in 1..n : lt[j][i] \/ (~lt[i][j] /\ j < i)})
    IN  [k \in 1..n |-> seq[CHOOSE i \in 1..n : rank(i) = k]]

RECURSIVE Concat(_)
Concat(ss) == IF Len(ss) = 0 THEN <<>> ELSE Head(ss) \o Concat(Tail(ss))

\* Mutant of Qualifies: only the three-letter top-level code is compared.
QualifiesTopLevel(tree_num, pfx) == StartsWith(tree_num, SubSeq(pfx, 1, 3))

\* if tree_num.startswith(prefix)
Qualifies(tree_num, pfx) == StartsWith(tree_num, pfx)

\* Mutant of Level: the dots are counted and nothing is added.
LevelDotsOnly(tree_num) == CountDots(tree_num)

\* level = tree_num.count('.') + 1
Level(tree_num) == CountDots(tree_num) + 1

\* the row appended for tree number i of record rec
HierRow(rec, i) ==
    [mesh_id     |-> rec["UI"],
     mesh_name   |-> IF HasKey(rec, "MH") THEN rec["MH"] ELSE "",
     tree_number |-> rec["MN"][i],
     level       |-> Level(rec["MN"][i])]

\* for tree_num in rec['MN']: if tree_num.startswith(prefix): rows.append(...)
RecRows(rec, pfx) ==
    SelectSeq([i \in 1..Len(rec["MN"]) |-> HierRow(rec, i)],
              LAMBDA r : Qualifies(r.tree_number, pfx))

\* for rec in records: ...
HierRows(recs, pfx) == Concat([k \in 1..Len(recs) |-> RecRows(recs[k], pfx)])

\* the order of sort_values(['tree_number', 'mesh_id'])
HierLess(a, b) ==
    \/ StrLess(a.tree_number, b.tree_number)
    \/ (a.tree_number = b.tree_number /\ StrLess(a.mesh_id, b.mesh_id))

\* Mutant of SortHierarchy: the rows are left in the order they were collected.
SortHierarchyAsCollected(rows) == rows

\* df.sort_values(['tree_number', 'mesh_id']).reset_index(drop=True)
SortHierarchy(rows) ==
    StableSort(rows, [i \in DOMAIN rows |-> [j \in DOMAIN rows |-> HierLess(rows[i], rows[j])]])

\* extract_c04_hierarchy(records, prefix).  pd.DataFrame([]) has no columns, so
\* sort_values raises KeyError('tree_number') when no row was collected.
ExtractC04Hierarchy ==
    /\ pc = "parsed"
    /\ IF HierRows(records, prefix) = <<>>
       THEN /\ pc' = "extract_KeyError"
            /\ mesh_hierarchy' = mesh_hierarchy
       ELSE /\ pc' = "extracted"
            /\ mesh_hierarchy' = SortHierarchy(HierRows(records, prefix))
    /\ UNCHANGED <<lines, current, records, prefix, diseaseVars, joinVars, entrezVars, runVars, netVars>>

\* Largest number of tree numbers the modelled records hold in total.
MaxTrees == 3

PathSet == {"C04.588.443", "C05.100", "C04", "C040"}

PrefixSet == {"C04", "C04.588"}

\* The two descriptors of the modelled records: one with a name, one without.
Descriptor(ui) ==
    IF ui = "D1" THEN [k \in {"UI", "MH"} |-> IF k = "UI" THEN "D1" ELSE "Ab"]
    ELSE [k \in {"UI"} |-> ui]

\* The record list a parse returns for tree numbers paths[i] read under identifier
\* uis[i]: consecutive tree numbers of one identifier form one record.
RECURSIVE GroupRecords(_, _)
GroupRecords(paths, uis) ==
    IF Len(paths) = 0 THEN <<>>
    ELSE LET rest == GroupRecords(Tail(paths), Tail(uis))
         IN  IF Len(rest) > 0 /\ rest[1]["UI"] = uis[1]
             THEN <<DictSet(rest[1], "MN", <<paths[1]>> \o rest[1]["MN"])>> \o Tail(rest)
             ELSE <<DictSet(Descriptor(uis[1]), "MN", <<paths[1]>>)>> \o rest

RecordInputs ==
    UNION {{GroupRecords(paths, uis) : paths \in [1..n -> PathSet], uis \in [1..n -> {"D1", "D2"}]} :
           n \in 0..MaxTrees}

InitHier ==
    /\ pc = "parsed"
    /\ lines = <<>>
    /\ current = EmptyDict
    /\ records \in RecordInputs
    /\ prefix \in PrefixSet
    /\ mesh_hierarchy = <<>>
    /\ diseases = <<>>
    /\ filtered = <<>>
    /\ cancer_diseases = <<>>
    /\ associations = <<>>
    /\ crosswalk = <<>>
    /\ final = <<>>
    /\ gene2ensembl = <<>>
    /\ entrez_map = <<>>
    /\ output = <<>>
    /\ files = <<>>
    /\ previous_output = <<>>
    /\ force = FALSE
    /\ downloads = 0

NextHier == ExtractC04Hierarchy

SpecHier == InitHier /\ [][NextHier]_vars

(***************************************************************************)
(* Claims on extract_c04_hierarchy                                         *)
(***************************************************************************)

\* p is a plain string prefix of s, character by character
IsStringPrefix(p, s) ==
    /\ Len(p) <= Len(s)
    /\ \A j \in 1..Len(p) : CharAt(s, j) = CharAt(p, j)

\* the (record, tree path) positions of the input whose path begins with the prefix
QualifyingPairs ==
    {<<k, i>> \in (1..Len(records)) \X (1..MaxTrees + 1) :
        i <= Len(records[k]["MN"]) /\ IsStringPrefix(prefix, records[k]["MN"][i])}

\* C10: when extract_c04_hierarchy returns, every tree_path of the output begins with
\* the prefix passed, and the output holds one entry per (record, tree path) position
\* whose path begins with the prefix, a term with several such paths keeping them all:
\* each (term, path) occurs as often in the output as among those positions.  The call
\* fails only when no position qualifies.
C10_OneEntryPerQualifyingPath ==
    /\ pc = "extracted" =>
          /\ \A r \in Range(mesh_hierarchy) : IsStringPrefix(prefix, r.tree_number)
          /\ Len(mesh_hierarchy) = Cardinality(QualifyingPairs)
          /\ \A q \in QualifyingPairs :
                Cardinality({j \in DOMAIN mesh_hierarchy :
                      /\ mesh_hierarchy[j].mesh_id = records[q[1]]["UI"]
                      /\ mesh_hierarchy[j].tree_number = records[q[1]]["MN"][q[2]]})
                = Cardinality({p \in QualifyingPairs :
                      /\ records[p[1]]["UI"] = records[q[1]]["UI"]
                      /\ records[p[1]]["MN"][p[2]] = records[q[1]]["MN"][q[2]]})
    /\ pc = "extract_KeyError" => QualifyingPairs = {}

\* C10 witness: under prefix C04 one term with the paths C04.588.443, C04 and C05.100
\* gives two entries, C04.588.443 among them, and none for C05.100.
C10_Witness ==
    /\ pc = "extracted"
    /\ prefix = "C04"
    /\ Len(records) = 1
    /\ Range(records[1]["MN"]) = {"C04.588.443", "C04", "C05.100"}
    /\ Len(mesh_hierarchy) = 2
    /\ \E r \in Range(mesh_hierarchy) : r.tree_number = "C04.588.443"
    /\ \A r \in Range(mesh_hierarchy) : r.tree_number # "C05.100"

\* the positions of the dot separators of s
DotPositions(s) == {i \in 1..Len(s) : SubSeq(s, i, i) = "."}

\* C11: every entry extract_c04_hierarchy returns has level equal to the number of dot
\* separators of its tree_path plus 1; the level of A.B.C is 3 and the level of A is 1.
C11_LevelIsDotsPlusOne ==
    /\ pc = "extracted" =>
          \A r \in Range(mesh_hierarchy) :
              r.level = Cardinality(DotPositions(r.tree_number)) + 1
    /\ Level("A.B.C") = 3
    /\ Level("A") = 1

\* C11 witness: a returned hierarchy holding C04.588.443 at level 3 and C04 at level 1.
C11_Witness ==
    /\ pc = "extracted"
    /\ \E r \in Range(mesh_hierarchy) : r.tree_number = "C04.588.443" /\ r.level = 3
    /\ \E r \in Range(mesh_hierarchy) : r.tree_number = "C04" /\ r.level = 1

\* (tree_path, term_id) of a precedes or equals that of b, compared as Python compares
\* tuples of strings
EntryLeq(a, b) ==
    \/ StrLess(a.tree_number, b.tree_number)
    \/ (a.tree_number = b.tree_number /\ StrLeq(a.mesh_id, b.mesh_id))

\* C19: the table extract_c04_hierarchy returns is sorted ascending by (tree_path,
\* term_id), whatever the order of the input records.
C19_HierarchySorted ==
    pc = "extracted" =>
        \A i \in 1..(Len(mesh_hierarchy) - 1) :
            EntryLeq(mesh_hierarchy[i], mesh_hierarchy[i + 1])

\* C19 witness: records whose qualifying paths are collected out of order, returned in
\* order.
C19_Witness ==
    /\ pc = "extracted"
    /\ Len(mesh_hierarchy) >= 2
    /\ HierRows(records, prefix) # mesh_hierarchy
    /\ \E i \in 1..(Len(mesh_hierarchy) - 1) :
          /\ mesh_hierarchy[i].tree_number = mesh_hierarchy[i + 1].tree_number
          /\ mesh_hierarchy[i].mesh_id # mesh_hierarchy[i + 1].mesh_id

(***************************************************************************)
(* extract_diseases.filter_cancer_diseases and extract_mesh_ids            *)
(*                                                                         *)
(* An optional value is <<>> (None) or <<v>>.  A list-typed cell of the    *)
(* disease index is a record [kind, items] with kind "None", "NaN" (the    *)
(* float missing value) or "list".                                         *)
(***************************************************************************)
None == <<>>
Some(v) == <<v>>

NoneCell == [kind |-> "None", items |-> <<>>]
NaNCell == [kind |-> "NaN", items |-> <<>>]
ListCell(xs) == [kind |-> "list", items |-> xs]

\* cancer_ta: str = "EFO_0000616"
CancerTA == "EFO_0000616"

\* if ancestors is None or (isinstance(ancestors, float) and pd.isna(ancestors)):
\*     return False
\* return cancer_ta in ancestors
HasNeoplasmAncestor(ancestors, cancer_ta) ==
    IF ancestors.kind = "None" \/ ancestors.kind = "NaN" THEN FALSE
    ELSE \E i \in DOMAIN ancestors.items : ancestors.items[i] = cancer_ta

\* Mutant of NotRoot: the top-level node is not excluded.
NotRootKeepsAll(row, cancer_ta) == TRUE

\* filtered["id"] != cancer_ta
NotRoot(row, cancer_ta) == row.id # cancer_ta

\* filter_cancer_diseases(diseases, cancer_ta)
FilterRows(rows, cancer_ta) ==
    SelectSeq(SelectSeq(rows, LAMBDA r : HasNeoplasmAncestor(r.ancestors, cancer_ta)),
              LAMBDA r : NotRoot(r, cancer_ta))

FilterCancerDiseases ==
    /\ pc = "loaded"
    /\ filtered' = FilterRows(diseases, CancerTA)
    /\ pc' = "filtered"
    /\ UNCHANGED <<meshVars, diseases, cancer_diseases, joinVars, entrezVars, runVars, netVars>>

\* Mutant of IsMeshRef: the prefix is compared with its case.
IsMeshRefCaseSensitive(ref) ==
    ref # None /\ ref[1] # "" /\ StartsWith(ref[1], "MeSH:")

\* if ref and ref.lower().startswith("mesh:")
IsMeshRef(ref) ==
    ref # None /\ ref[1] # "" /\ StartsWith(Lower(ref[1]), "mesh:")

\* Mutant of GetMeshIds: one character too few is stripped (ref[4:]).
GetMeshIdsShortStrip(xrefs) ==
    IF xrefs.kind = "None" \/ xrefs.kind = "NaN" THEN None
    ELSE LET hits == SelectSeq(xrefs.items, IsMeshRef)
             mesh_ids == [i \in 1..Len(hits) |-> SliceFrom(hits[i][1], 4)]
         IN  IF Len(mesh_ids) > 0 THEN Some(mesh_ids) ELSE None

\* get_mesh_ids(xrefs)
GetMeshIds(xrefs) ==
    IF xrefs.kind = "None" \/ xrefs.kind = "NaN" THEN None
    ELSE LET hits == SelectSeq(xrefs.items, IsMeshRef)
             mesh_ids == [i \in 1..Len(hits) |-> SliceFrom(hits[i][1], 5)]
         IN  IF Len(mesh_ids) > 0 THEN Some(mesh_ids) ELSE None

\* extract_mesh_ids(diseases)
MeshIdRows(rows) ==
    [k \in 1..Len(rows) |->
        [diseaseId   |-> rows[k].id,
         diseaseName |-> rows[k].name,
         meshIds     |-> GetMeshIds(rows[k].dbXRefs)]]

ExtractMeshIds ==
    /\ pc = "filtered"
    /\ cancer_diseases' = MeshIdRows(filtered)
    /\ pc' = "mesh_ids"
    /\ UNCHANGED <<meshVars, diseases, filtered, joinVars, entrezVars, runVars, netVars>>

\* Largest number of rows of the modelled disease index.
MaxDiseases == 2

AncestorCells ==
    {NoneCell, NaNCell, ListCell(<<>>), ListCell(<<CancerTA>>), ListCell(<<"EFO_9">>),
     ListCell(<<"EFO_9", CancerTA>>)}

DiseaseRow(id, anc, xrefs) == [id |-> id, name |-> "n" \o id, ancestors |-> anc, dbXRefs |-> xrefs]

IndexRows == {DiseaseRow(id, anc, NoneCell) : id \in {CancerTA, "EFO_1", "EFO_2"}, anc \in AncestorCells}

InitFilter ==
    /\ pc = "loaded"
    /\ diseases \in SeqsUpTo(IndexRows, MaxDiseases)
    /\ filtered = <<>>
    /\ cancer_diseases = <<>>
    /\ lines = <<>>
    /\ current = EmptyDict
    /\ records = <<>>
    /\ prefix = ""
    /\ mesh_hierarchy = <<>>
    /\ associations = <<>>
    /\ crosswalk = <<>>
    /\ final = <<>>
    /\ gene2ensembl = <<>>
    /\ entrez_map = <<>>
    /\ output = <<>>
    /\ files = <<>>
    /\ previous_output = <<>>
    /\ force = FALSE
    /\ downloads = 0

NextFilter == FilterCancerDiseases

SpecFilter == InitFilter /\ [][NextFilter]_vars

\* Largest number of references in a modelled dbXRefs list.
MaxRefs == 3

RefSet == {Some("MeSH:D1"), Some("mesh:D2"), Some("MESH:"), Some("OMIM:9"), None}

XRefCells == {NoneCell, NaNCell} \cup {ListCell(xs) : xs \in SeqsUpTo(RefSet, MaxRefs)}

InitXref ==
    /\ pc = "filtered"
    /\ diseases = <<>>
    /\ filtered \in {<<DiseaseRow(id, ListCell(<<CancerTA>>), x)>> : id \in {"EFO_1"}, x \in XRefCells}
    /\ cancer_diseases = <<>>
    /\ lines = <<>>
    /\ current = EmptyDict
    /\ records = <<>>
    /\ prefix = ""
    /\ mesh_hierarchy = <<>>
    /\ associations = <<>>
    /\ crosswalk = <<>>
    /\ final = <<>>
    /\ gene2ensembl = <<>>
    /\ entrez_map = <<>>
    /\ output = <<>>
    /\ files = <<>>
    /\ previous_output = <<>>
    /\ force = FALSE
    /\ downloads = 0

NextXref == ExtractMeshIds

SpecXref == InitXref /\ [][NextXref]_vars

(***************************************************************************)
(* Claims on the disease filter                                            *)
(***************************************************************************)

\* the ancestor list of the row is present and contains the root
ListsRoot(row) ==
    row.ancestors.kind = "list" /\ CancerTA \in Range(row.ancestors.items)

\* C8: filter_cancer_diseases always returns, and returns exactly the rows, in index
\* order, whose ancestor list contains the cancer root and whose own id is not the
\* root; a row whose ancestor list is None or NaN is left out.
C8_FilterIsAncestorMembership ==
    pc = "filtered" =>
        /\ filtered = SelectSeq(diseases, LAMBDA r : ListsRoot(r) /\ r.id # CancerTA)
        /\ \A r \in Range(filtered) : r.ancestors.kind = "list"

\* C8 witness: an index holding the root's own row (whose ancestors list the root) and
\* a row without ancestor list is filtered to nothing, without an error.
C8_Witness ==
    /\ pc = "filtered"
    /\ Len(diseases) = 2
    /\ \E r \in Range(diseases) : r.id = CancerTA /\ ListsRoot(r)
    /\ \E r \in Range(diseases) : r.ancestors.kind \in {"None", "NaN"}
    /\ filtered = <<>>

\* two characters equal up to case
SameLetter(a, b) ==
    \/ a = b
    \/ (IndexOf(a, UpperCase) > 0 /\ IndexOf(a, UpperCase) = IndexOf(b, LowerCase))
    \/ (IndexOf(b, UpperCase) > 0 /\ IndexOf(b, UpperCase) = IndexOf(a, LowerCase))

\* the reference is a string that starts with "mesh:" in any case
TaggedMesh(ref) ==
    /\ ref # None
    /\ Len(ref[1]) >= 5
    /\ \A j \in 1..5 : SameLetter(CharAt(ref[1], j), CharAt("mesh:", j))

\* the positions of the list that hold a MeSH-tagged reference, ascending
TaggedPositions(xs) == Ascending({i \in DOMAIN xs : TaggedMesh(xs[i])})

\* C9: for every disease, meshIds is None when the reference list is None, NaN, empty
\* or holds no MeSH-tagged reference, and otherwise it is the non-empty list of the
\* tagged references in their original order, each without its first five characters;
\* the id and name of the row are carried over.
C9_MeshIdsInOrderOrNone ==
    pc = "mesh_ids" =>
        /\ Len(cancer_diseases) = Len(filtered)
        /\ \A k \in DOMAIN cancer_diseases :
              LET xs  == filtered[k].dbXRefs.items
                  pos == TaggedPositions(xs)
                  got == cancer_diseases[k].meshIds
              IN  /\ cancer_diseases[k].diseaseId = filtered[k].id
                  /\ cancer_diseases[k].diseaseName = filtered[k].name
                  /\ got # Some(<<>>)
                  /\ (filtered[k].dbXRefs.kind # "list" \/ Len(pos) = 0) => got = None
                  /\ (filtered[k].dbXRefs.kind = "list" /\ Len(pos) > 0) =>
                        /\ got # None
                        /\ Len(got[1]) = Len(pos)
                        /\ \A i \in 1..Len(pos) :
                              xs[pos[i]][1] = SubSeq(xs[pos[i]][1], 1, 5) \o got[1][i]

\* C9 witness: a list with an untagged reference between two tagged ones of different
\* case gives the two stripped ids in list order.
C9_Witness ==
    /\ pc = "mesh_ids"
    /\ filtered[1].dbXRefs = ListCell(<<Some("mesh:D2"), Some("OMIM:9"), Some("MeSH:D1")>>)
    /\ cancer_diseases[1].meshIds = Some(<<"D2", "D1">>)

(***************************************************************************)
(* build_crosswalk.build_disease_mesh_crosswalk                            *)
(***************************************************************************)

\* The orders in which the indices I can follow one another when no index may come
\* after one it sorts before (lt[i][j]: i sorts before j).
RECURSIVE OrdersOf(_, _)
OrdersOf(I, lt) ==
    IF I = {} THEN {<<>>}
    ELSE UNION {{<<m>> \o t : t \in OrdersOf(I \ {m}, lt)} :
                m \in {x \in I : \A y \in I : ~lt[y][x]}}

\* DataFrame.sort_values on one column (kind='quicksort', not stable): every
\* arrangement of the rows that is sorted by lt, rows that tie in any order.
UnstableSort(seq, lt) ==
    {[k \in 1..Len(seq) |-> seq[o[k]]] : o \in OrdersOf(1..Len(seq), lt)}

\* with_mesh = cancer_diseases[cancer_diseases["meshIds"].notna()]; one row per
\* (disease, mesh_id in row["meshIds"])
ExplodeMeshIds(cd) ==
    Concat([k \in 1..Len(cd) |->
        IF cd[k].meshIds = None THEN <<>>
        ELSE [i \in 1..Len(cd[k].meshIds[1]) |->
                 [diseaseId   |-> cd[k].diseaseId,
                  diseaseName |-> cd[k].diseaseName,
                  meshId      |-> cd[k].meshIds[1][i]]]])

\* crosswalk.merge(mesh_hierarchy.rename(columns={"mesh_id": "meshId"}), on="meshId",
\*                 how="inner")
MergeHierarchy(rows, hier) ==
    Concat([k \in 1..Len(rows) |->
        LET hits == SelectSeq(hier, LAMBDA h : h.mesh_id = rows[k].meshId)
        IN  [i \in 1..Len(hits) |->
                [diseaseId   |-> rows[k].diseaseId,
                 diseaseName |-> rows[k].diseaseName,
                 meshId      |-> rows[k].meshId,
                 mesh_name   |-> hits[i].mesh_name,
                 tree_number |-> hits[i].tree_number,
                 level       |-> hits[i].level]]])

\* the order of sort_values(['diseaseId', 'level'])
XwLess(a, b) ==
    \/ StrLess(a.diseaseId, b.diseaseId)
    \/ (a.diseaseId = b.diseaseId /\ a.level < b.level)

\* crosswalk.sort_values('level', ascending=False): the sort is not stable, rows of
\* equal level come out in any order
SortByLevelDescending(merged) ==
    UnstableSort(merged, [i \in DOMAIN merged |-> [j \in DOMAIN merged |->
                             merged[i].level > merged[j].level]])

\* Mutant of DropDuplicatesKeepLast: keep='first'.
DropDuplicatesKeepFirst(rows) ==
    LET kept == Ascending({i \in DOMAIN rows : \A j \in DOMAIN rows :
                    (rows[j].diseaseId = rows[i].diseaseId /\ rows[j].meshId = rows[i].meshId)
                        => j >= i})
    IN  [k \in 1..Len(kept) |-> rows[kept[k]]]

\* (variant: the rows of one (diseaseId, meshId) pair are all kept)
DropDuplicatesOmitted(rows) == rows

\* drop_duplicates(subset=['diseaseId', 'meshId'], keep='last')
DropDuplicatesKeepLast(rows) ==
    LET kept == Ascending({i \in DOMAIN rows : \A j \in DOMAIN rows :
                    (rows[j].diseaseId = rows[i].diseaseId /\ rows[j].meshId = rows[i].meshId)
                        => j <= i})
    IN  [k \in 1..Len(kept) |-> rows[kept[k]]]

\* .sort_values(['diseaseId', 'level'])
SortCrosswalk(rows) ==
    StableSort(rows, [i \in DOMAIN rows |-> [j \in DOMAIN rows |-> XwLess(rows[i], rows[j])]])

\* the tables the dedupe of lines 74-79 can leave
DedupOutcomes(merged) ==
    {SortCrosswalk(DropDuplicatesKeepLast(sorted)) : sorted \in SortByLevelDescending(merged)}

\* build_disease_mesh_crosswalk(cancer_diseases, mesh_hierarchy).  When no disease has
\* meshIds, pd.DataFrame([]) has no meshId column and merge raises KeyError.
BuildDiseaseMeshCrosswalk ==
    /\ pc = "extracted"
    /\ IF ExplodeMeshIds(cancer_diseases) = <<>>
       THEN /\ pc' = "crosswalk_KeyError"
            /\ crosswalk' = crosswalk
       ELSE /\ pc' = "crosswalk"
            /\ crosswalk' \in
                 DedupOutcomes(MergeHierarchy(ExplodeMeshIds(cancer_diseases), mesh_hierarchy))
    /\ UNCHANGED <<meshVars, diseaseVars, associations, final, entrezVars, runVars, netVars>>

\* Largest number of cross-reference ids the modelled disease table holds in total.
MaxMeshIds == 3

\* The hierarchy tables of the modelled runs, each as extract_c04_hierarchy returns it.
HierarchyInputs ==
    {SortHierarchy(HierRows(recs, "C04.588")) : recs \in
        {<<DictSet(Descriptor("D1"), "MN", <<"C04.588.1", "C04.588.2.3.4">>),
           DictSet(Descriptor("D2"), "MN", <<"C04.588.2.3">>)>>,
         <<DictSet(Descriptor("D1"), "MN", <<"C04.588.9", "C04.588.1">>)>>,
         <<DictSet(Descriptor("D2"), "MN", <<"C04.588.2.3">>)>>}}

\* A disease table as extract_mesh_ids returns it, from (disease, mesh id) entries:
\* consecutive entries of one disease form one row, the entry (disease, "") is a row
\* whose meshIds is None.
RECURSIVE GroupDiseases(_)
GroupDiseases(entries) ==
    IF Len(entries) = 0 THEN <<>>
    ELSE LET e    == entries[1]
             rest == GroupDiseases(Tail(entries))
             row(ids) == [diseaseId |-> e[1], diseaseName |-> "n" \o e[1], meshIds |-> ids]
         IN  IF e[2] = "" THEN <<row(None)>> \o rest
             ELSE IF Len(rest) > 0 /\ rest[1].diseaseId = e[1] /\ rest[1].meshIds # None
                  THEN <<row(Some(<<e[2]>> \o rest[1].meshIds[1]))>> \o Tail(rest)
                  ELSE <<row(Some(<<e[2]>>))>> \o rest

MeshIdEntries == ({"EFO_1"} \X {"D1", "D2", "D9", ""}) \cup ({"EFO_2"} \X {"D2", ""})

InitCrosswalk ==
    /\ pc = "extracted"
    /\ cancer_diseases \in {GroupDiseases(es) : es \in SeqsUpTo(MeshIdEntries, MaxMeshIds)}
    /\ mesh_hierarchy \in HierarchyInputs
    /\ prefix = "C04.588"
    /\ lines = <<>>
    /\ current = EmptyDict
    /\ records = <<>>
    /\ diseases = <<>>
    /\ filtered = <<>>
    /\ associations = <<>>
    /\ crosswalk = <<>>
    /\ final = <<>>
    /\ gene2ensembl = <<>>
    /\ entrez_map = <<>>
    /\ output = <<>>
    /\ files = <<>>
    /\ previous_output = <<>>
    /\ force = FALSE
    /\ downloads = 0

NextCrosswalk == BuildDiseaseMeshCrosswalk

SpecCrosswalk == InitCrosswalk /\ [][NextCrosswalk]_vars

(***************************************************************************)
(* Claims on build_disease_mesh_crosswalk                                  *)
(***************************************************************************)

\* the levels of the hierarchy entries of term t
LevelsOf(t) == {mesh_hierarchy[i].level : i \in {j \in DOMAIN mesh_hierarchy :
                    mesh_hierarchy[j].mesh_id = t}}

\* the (disease, term) pairs the disease table lists whose term has a hierarchy entry
MappedPairs ==
    {q \in {r.diseaseId : r \in Range(cancer_diseases)} \X {h.mesh_id : h \in Range(mesh_hierarchy)} :
        \E k \in DOMAIN cancer_diseases :
            /\ cancer_diseases[k].diseaseId = q[1]
            /\ cancer_diseases[k].meshIds # None
            /\ q[2] \in Range(cancer_diseases[k].meshIds[1])}

\* C3: the crosswalk returned holds exactly one row for every (disease, term) pair the
\* join produces and no two rows of one pair, and the level of the row of a pair is
\* the lowest level among the hierarchy entries of its term.
C3_OneRowPerPairLowestLevel ==
    pc = "crosswalk" =>
        /\ \A q \in MappedPairs :
              Cardinality({i \in DOMAIN crosswalk :
                    crosswalk[i].diseaseId = q[1] /\ crosswalk[i].meshId = q[2]}) = 1
        /\ Len(crosswalk) = Cardinality(MappedPairs)
        /\ \A i \in DOMAIN crosswalk :
              /\ crosswalk[i].level \in LevelsOf(crosswalk[i].meshId)
              /\ \A l \in LevelsOf(crosswalk[i].meshId) : crosswalk[i].level <= l

\* C3 witness: a disease that lists a term twice, the term at levels 3 and 5, is left
\* with one row, of level 3.
C3_Witness ==
    /\ pc = "crosswalk"
    /\ \E k \in DOMAIN cancer_diseases : cancer_diseases[k].meshIds = Some(<<"D1", "D1">>)
    /\ LevelsOf("D1") = {3, 5}
    /\ Len(crosswalk) = 1
    /\ crosswalk[1].meshId = "D1"
    /\ crosswalk[1].level = 3

\* the cross-reference ids the disease table lists for disease d
CrossRefIdsOf(d) ==
    UNION {Range(cancer_diseases[k].meshIds[1]) :
              k \in {j \in DOMAIN cancer_diseases :
                        /\ cancer_diseases[j].diseaseId = d
                        /\ cancer_diseases[j].meshIds # None}}

\* C12: build_disease_mesh_crosswalk never raises on a disease table, records with
\* absent cross_ref_ids included; every term_id of the crosswalk is a term of the
\* hierarchy table and every (disease_id, term_id) of the crosswalk is among that
\* disease's cross_ref_ids.
C12_AbsentAndUnmatchedDropped ==
    /\ pc # "crosswalk_KeyError"
    /\ pc = "crosswalk" =>
          \A x \in Range(crosswalk) :
              /\ \E h \in Range(mesh_hierarchy) : h.mesh_id = x.meshId
              /\ x.meshId \in CrossRefIdsOf(x.diseaseId)

(***************************************************************************)
(* build_crosswalk.build_final_dataset                                     *)
(***************************************************************************)

\* associations[associations["diseaseId"].isin(set(crosswalk["diseaseId"]))]
\* (variant: the filter tests the disease id against the crosswalk's term ids)
FilterAssociationsOnTermId(assoc, xw) ==
    SelectSeq(assoc, LAMBDA a : a.diseaseId \in {x.meshId : x \in Range(xw)})

FilterAssociations(assoc, xw) ==
    SelectSeq(assoc, LAMBDA a : a.diseaseId \in {x.diseaseId : x \in Range(xw)})

\* cancer_assoc.merge(crosswalk[["diseaseId", "meshId"]], on="diseaseId", how="inner")
JoinCrosswalk(assoc, xw) ==
    Concat([k \in 1..Len(assoc) |->
        LET hits == SelectSeq(xw, LAMBDA x : x.diseaseId = assoc[k].diseaseId)
        IN  [i \in 1..Len(hits) |->
                [diseaseId     |-> assoc[k].diseaseId,
                 targetId      |-> assoc[k].targetId,
                 score         |-> assoc[k].score,
                 evidenceCount |-> assoc[k].evidenceCount,
                 meshId        |-> hits[i].meshId]]])

\* the order of the group keys (targetId, meshId) that groupby sorts by
KeyLeq(a, b) == StrLess(a[1], b[1]) \/ (a[1] = b[1] /\ StrLeq(a[2], b[2]))

RECURSIVE SortKeys(_)
SortKeys(K) ==
    IF K = {} THEN <<>>
    ELSE LET m == CHOOSE x \in K : \A y \in K : KeyLeq(x, y)
         IN  <<m>> \o SortKeys(K \ {m})

\* Mutant of MaxScore: the scores of the group are added up.
RECURSIVE SumScore(_)
SumScore(rows) ==
    IF Len(rows) = 1 THEN rows[1].score ELSE rows[1].score + SumScore(Tail(rows))

\* "score": "max"
RECURSIVE MaxScore(_)
MaxScore(rows) ==
    IF Len(rows) = 1 THEN rows[1].score
    ELSE LET m == MaxScore(Tail(rows)) IN IF rows[1].score > m THEN rows[1].score ELSE m

\* Mutant of SumEvidence: the evidence count is reduced by max as well.
RECURSIVE MaxEvidence(_)
MaxEvidence(rows) ==
    IF Len(rows) = 1 THEN rows[1].evidenceCount
    ELSE LET m == MaxEvidence(Tail(rows))
         IN  IF rows[1].evidenceCount > m THEN rows[1].evidenceCount ELSE m

\* "evidenceCount": "sum"
RECURSIVE SumEvidence(_)
SumEvidence(rows) ==
    IF Len(rows) = 0 THEN 0 ELSE rows[1].evidenceCount + SumEvidence(Tail(rows))

\* (variant: groupby(..., sort=False), the groups in order of first appearance)
GroupAggregateInOrderOfAppearance(joined) ==
    LET firsts == Ascending({i \in DOMAIN joined : \A j \in DOMAIN joined :
                      (joined[j].targetId = joined[i].targetId
                          /\ joined[j].meshId = joined[i].meshId) => j >= i})
        grp(i) == SelectSeq(joined, LAMBDA r : r.targetId = joined[i].targetId
                                                /\ r.meshId = joined[i].meshId)
    IN  [k \in 1..Len(firsts) |->
            [targetId      |-> joined[firsts[k]].targetId,
             meshId        |-> joined[firsts[k]].meshId,
             score         |-> MaxScore(grp(firsts[k])),
             evidenceCount |-> SumEvidence(grp(firsts[k]))]]

\* joined.groupby(["targetId", "meshId"]).agg({...}).reset_index()
GroupAggregate(joined) ==
    LET keys == SortKeys({<<r.targetId, r.meshId>> : r \in Range(joined)})
        grp(key) == SelectSeq(joined, LAMBDA r : r.targetId = key[1] /\ r.meshId = key[2])
    IN  [k \in 1..Len(keys) |->
            [targetId      |-> keys[k][1],
             meshId        |-> keys[k][2],
             score         |-> MaxScore(grp(keys[k])),
             evidenceCount |-> SumEvidence(grp(keys[k]))]]

\* build_final_dataset(associations, cancer_diseases, crosswalk)
BuildFinalDataset ==
    /\ pc = "crosswalk"
    /\ final' = GroupAggregate(JoinCrosswalk(FilterAssociations(associations, crosswalk),
                                             crosswalk))
    /\ pc' = "aggregated"
    /\ UNCHANGED <<meshVars, diseaseVars, associations, crosswalk, entrezVars, runVars, netVars>>

\* Largest number of rows of the modelled association table.
MaxAssoc == 3

AssocRow(d, g, sc, ev) == [diseaseId |-> d, targetId |-> g, score |-> sc, evidenceCount |-> ev]

AssocRows ==
    {AssocRow(d, g, m[1], m[2]) :
        d \in {"EFO_1", "EFO_2"}, g \in {"ENSG1", "ENSG2"}, m \in {<<8, 5>>, <<6, 3>>}}
    \cup {AssocRow("EFO_3", "ENSG1", 8, 5)}

\* The crosswalks of the modelled runs, each as build_disease_mesh_crosswalk returns it.
CrosswalkInputs ==
    UNION {DedupOutcomes(MergeHierarchy(ExplodeMeshIds(GroupDiseases(es)), hier)) :
              es \in {<<<<"EFO_1", "D1">>, <<"EFO_2", "D2">>>>,
                      <<<<"EFO_1", "D2">>, <<"EFO_2", "D2">>>>,
                      <<<<"EFO_1", "D1">>, <<"EFO_1", "D2">>, <<"EFO_2", "">>>>,
                      <<<<"EFO_1", "D9">>, <<"EFO_2", "D2">>>>},
              hier \in HierarchyInputs}

InitFinal ==
    /\ pc = "crosswalk"
    /\ associations \in SeqsUpTo(AssocRows, MaxAssoc)
    /\ crosswalk \in CrosswalkInputs
    /\ final = <<>>
    /\ prefix = "C04.588"
    /\ lines = <<>>
    /\ current = EmptyDict
    /\ records = <<>>
    /\ mesh_hierarchy = <<>>
    /\ diseases = <<>>
    /\ filtered = <<>>
    /\ cancer_diseases = <<>>
    /\ gene2ensembl = <<>>
    /\ entrez_map = <<>>
    /\ output = <<>>
    /\ files = <<>>
    /\ previous_output = <<>>
    /\ force = FALSE
    /\ downloads = 0

NextFinal == BuildFinalDataset

SpecFinal == InitFinal /\ [][NextFinal]_vars

(***************************************************************************)
(* Claims on build_final_dataset                                           *)
(***************************************************************************)

\* the contributing rows of (g, t): an association (D, g) joined with a pair (D, t)
Contributing(g, t) ==
    {c \in (DOMAIN associations) \X (DOMAIN crosswalk) :
        /\ associations[c[1]].targetId = g
        /\ crosswalk[c[2]].meshId = t
        /\ associations[c[1]].diseaseId = crosswalk[c[2]].diseaseId}

RECURSIVE EvidenceSum(_)
EvidenceSum(C) ==
    IF C = {} THEN 0
    ELSE LET c == CHOOSE x \in C : TRUE
         IN  associations[c[1]].evidenceCount + EvidenceSum(C \ {c})

\* C1: the aggregated table holds no row for a (gene, term) pair without contributing
\* row and exactly one row for a pair that has one; its score is the greatest score of
\* the contributing associations and its evidence count the sum of theirs.
C1_MaxScoreSumEvidencePerPair ==
    pc = "aggregated" =>
        \A g \in {a.targetId : a \in Range(associations)} \cup {r.targetId : r \in Range(final)},
           t \in {x.meshId : x \in Range(crosswalk)} \cup {r.meshId : r \in Range(final)} :
            LET C    == Contributing(g, t)
                rows == {k \in DOMAIN final : final[k].targetId = g /\ final[k].meshId = t}
            IN  /\ C = {} => rows = {}
                /\ C # {} =>
                      /\ Cardinality(rows) = 1
                      /\ \A k \in rows :
                            /\ \E c \in C : associations[c[1]].score = final[k].score
                            /\ \A c \in C : associations[c[1]].score <= final[k].score
                            /\ final[k].evidenceCount = EvidenceSum(C)

\* C1 witness: two diseases mapped to one term, carrying one gene with score 0.8,
\* evidence 5 and score 0.6, evidence 3, give the single row (gene, term, 0.8, 8).
C1_Witness ==
    /\ pc = "aggregated"
    /\ associations = <<AssocRow("EFO_1", "ENSG1", 8, 5), AssocRow("EFO_2", "ENSG1", 6, 3)>>
    /\ {<<x.diseaseId, x.meshId>> : x \in Range(crosswalk)} = {<<"EFO_1", "D2">>, <<"EFO_2", "D2">>}
    /\ final = <<[targetId |-> "ENSG1", meshId |-> "D2", score |-> 8, evidenceCount |-> 8]>>

(***************************************************************************)
(* add_entrez.load_gene2ensembl and add_entrez.run                         *)
(***************************************************************************)

Digits == "0123456789"

\* str(n) for n >= 0
RECURSIVE IntToStr(_)
IntToStr(n) ==
    IF n < 10 THEN CharAt(Digits, n + 1)
    ELSE IntToStr(n \div 10) \o CharAt(Digits, (n % 10) + 1)

\* int(s) for a string of decimal digits
RECURSIVE StrToInt(_)
StrToInt(s) ==
    IF Len(s) = 0 THEN 0
    ELSE 10 * StrToInt(SubSeq(s, 1, Len(s) - 1)) + (IndexOf(CharAt(s, Len(s)), Digits) - 1)

\* HUMAN_TAX_ID = 9606
HUMAN_TAX_ID == 9606

\* run(config, verbose=True), as run_all and main call it
Verbose == TRUE

\* df.drop_duplicates(): the first row of every distinct row value
DropDuplicateRows(rows) ==
    LET kept == Ascending({i \in DOMAIN rows : \A j \in DOMAIN rows : rows[j] = rows[i] => j >= i})
    IN  [k \in 1..Len(kept) |-> rows[kept[k]]]

\* Mutant of DropDuplicateEnsembl: keep='last'.
DropDuplicateEnsemblKeepLast(rows) ==
    LET kept == Ascending({i \in DOMAIN rows : \A j \in DOMAIN rows :
                    rows[j].ensemblGeneId = rows[i].ensemblGeneId => j <= i})
    IN  [k \in 1..Len(kept) |-> rows[kept[k]]]

\* gene_mapping.drop_duplicates(subset=['ensemblGeneId'], keep='first')
DropDuplicateEnsembl(rows) ==
    LET kept == Ascending({i \in DOMAIN rows : \A j \in DOMAIN rows :
                    rows[j].ensemblGeneId = rows[i].ensemblGeneId => j >= i})
    IN  [k \in 1..Len(kept) |-> rows[kept[k]]]

\* load_gene2ensembl(gz_path, tax_id)
LoadGene2Ensembl(rows, tax_id) ==
    LET df == SelectSeq(rows, LAMBDA r : r.tax_id = IntToStr(tax_id))
        gene_mapping == [k \in 1..Len(df) |->
                            [entrezGeneId  |-> df[k].GeneID,
                             ensemblGeneId |-> df[k].Ensembl_gene_identifier]]
    IN  DropDuplicateEnsembl(DropDuplicateRows(gene_mapping))

\* Mutant of MergeEntrez: a row without match is given the placeholder id "0".
MergeEntrezPlaceholder(df, map) ==
    Concat([k \in 1..Len(df) |->
        LET hits == SelectSeq(map, LAMBDA e : e.ensemblGeneId = df[k].targetId)
            row(e) == [meshId |-> df[k].meshId, targetId |-> df[k].targetId,
                       score |-> df[k].score, evidenceCount |-> df[k].evidenceCount,
                       entrezGeneId |-> e]
        IN  IF Len(hits) = 0 THEN <<row(Some("0"))>>
            ELSE [i \in 1..Len(hits) |-> row(Some(hits[i].entrezGeneId))]])

\* df.merge(entrez_map.rename(columns={'ensemblGeneId': 'targetId'}), on='targetId',
\*          how='left'): a row without match keeps a missing entrezGeneId
MergeEntrez(df, map) ==
    Concat([k \in 1..Len(df) |->
        LET hits == SelectSeq(map, LAMBDA e : e.ensemblGeneId = df[k].targetId)
            row(e) == [meshId |-> df[k].meshId, targetId |-> df[k].targetId,
                       score |-> df[k].score, evidenceCount |-> df[k].evidenceCount,
                       entrezGeneId |-> e]
        IN  IF Len(hits) = 0 THEN <<row(None)>>
            ELSE [i \in 1..Len(hits) |-> row(Some(hits[i].entrezGeneId))]])

\* df.dropna(subset=['entrezGeneId'])
DropMissingEntrez(df) == SelectSeq(df, LAMBDA r : r.entrezGeneId # None)

\* df['entrezGeneId'].astype(int); the four columns selected and renamed
FinalColumns(df) ==
    [k \in 1..Len(df) |->
        [disease_mesh_id |-> df[k].meshId,
         gene_entrez_id  |-> StrToInt(df[k].entrezGeneId[1]),
         ot_score        |-> df[k].score,
         evidence_count  |-> df[k].evidenceCount]]

\* Mutant of SortByScoreDescending: the rows are written in the order of the merge.
SortByScoreOmitted(rows) == {rows}

\* final.sort_values('ot_score', ascending=False): not stable, equal scores in any order
SortByScoreDescending(rows) ==
    UnstableSort(rows, [i \in DOMAIN rows |-> [j \in DOMAIN rows |->
                           rows[i].ot_score > rows[j].ot_score]])

\* add_entrez.run: the mapping is loaded and saved, the table merged and written.  With
\* verbose set, the retained fraction len(df)/before divides by zero on an empty table.
AddEntrezRun ==
    /\ pc = "aggregated"
    /\ entrez_map' = LoadGene2Ensembl(gene2ensembl, HUMAN_TAX_ID)
    /\ LET merged == MergeEntrez(final, entrez_map')
       IN  IF Verbose /\ Len(merged) = 0
           THEN /\ pc' = "ZeroDivisionError"
                /\ output' = output
           ELSE /\ pc' = "written"
                /\ output' \in SortByScoreDescending(FinalColumns(DropMissingEntrez(merged)))
    /\ UNCHANGED <<meshVars, diseaseVars, joinVars, gene2ensembl, runVars, netVars>>

\* Largest number of rows of the modelled gene2ensembl table.
MaxGeneRows == 2

GeneRows ==
    {[tax_id |-> x, GeneID |-> e, Ensembl_gene_identifier |-> g] :
        x \in {"9606", "10090"}, e \in {"7157", "672"}, g \in {"ENSG1", "ENSG2"}}

\* The association tables of the modelled Step 2 runs.
AssociationInputs ==
    {<<AssocRow("EFO_1", "ENSG1", 8, 5), AssocRow("EFO_2", "ENSG1", 6, 3)>>,
     <<AssocRow("EFO_1", "ENSG1", 6, 3), AssocRow("EFO_1", "ENSG2", 6, 3)>>,
     <<AssocRow("EFO_2", "ENSG2", 8, 5), AssocRow("EFO_1", "ENSG1", 8, 5),
       AssocRow("EFO_1", "ENSG2", 6, 3)>>,
     <<AssocRow("EFO_3", "ENSG1", 8, 5)>>}

\* The aggregated tables of the modelled runs, each as build_final_dataset returns it.
AggregatedInputs ==
    {GroupAggregate(JoinCrosswalk(FilterAssociations(a, xw), xw)) :
        a \in AssociationInputs, xw \in CrosswalkInputs}

InitEntrez ==
    /\ pc = "aggregated"
    /\ final \in AggregatedInputs
    /\ gene2ensembl \in SeqsUpTo(GeneRows, MaxGeneRows)
    /\ entrez_map = <<>>
    /\ output = <<>>
    /\ files = <<>>
    /\ previous_output = <<>>
    /\ force = FALSE
    /\ downloads = 0
    /\ prefix = "C04.588"
    /\ lines = <<>>
    /\ current = EmptyDict
    /\ records = <<>>
    /\ mesh_hierarchy = <<>>
    /\ diseases = <<>>
    /\ filtered = <<>>
    /\ cancer_diseases = <<>>
    /\ associations = <<>>
    /\ crosswalk = <<>>

NextEntrez == AddEntrezRun

SpecEntrez == InitEntrez /\ [][NextEntrez]_vars

(***************************************************************************)
(* Claims on add_entrez.run                                                *)
(***************************************************************************)

\* C2: the final table written holds at most one row per (disease_mesh_id,
\* gene_entrez_id) pair.
C2_OneRowPerMeshEntrezPair ==
    pc = "written" =>
        \A i, j \in DOMAIN output :
            (/\ output[i].disease_mesh_id = output[j].disease_mesh_id
             /\ output[i].gene_entrez_id = output[j].gene_entrez_id) => i = j

\* the rows of the gene table of the selected taxon that name source gene id g
TaxonRowsOf(g) ==
    {k \in DOMAIN gene2ensembl :
        /\ gene2ensembl[k].tax_id = "9606"
        /\ gene2ensembl[k].Ensembl_gene_identifier = g}

\* the number a GeneID text of the modelled gene table denotes
EntrezNumber(t) == IF t = "7157" THEN 7157 ELSE IF t = "672" THEN 672 ELSE -1

\* C13: the table add_entrez.run writes holds one row for every aggregated row whose
\* source gene id has an entry in the gene crosswalk, carrying that row's term, score
\* and evidence count and a target id of the crosswalk, and no row for an aggregated
\* row without an entry, neither with a null nor with a placeholder id.
C13_UnmappedDroppedMappedKept ==
    pc = "written" =>
        LET mapped == {k \in DOMAIN final : TaxonRowsOf(final[k].targetId) # {}}
        IN  /\ Len(output) = Cardinality(mapped)
            /\ \A k \in mapped : \E o \in Range(output) :
                   /\ o.disease_mesh_id = final[k].meshId
                   /\ o.ot_score = final[k].score
                   /\ o.evidence_count = final[k].evidenceCount
                   /\ \E i \in TaxonRowsOf(final[k].targetId) :
                          o.gene_entrez_id = EntrezNumber(gene2ensembl[i].GeneID)
            /\ \A o \in Range(output) : \E k \in mapped :
                   /\ o.disease_mesh_id = final[k].meshId
                   /\ \E i \in TaxonRowsOf(final[k].targetId) :
                          o.gene_entrez_id = EntrezNumber(gene2ensembl[i].GeneID)

\* C13 witness: of two aggregated rows, for ENSG1 and ENSG2, only ENSG1 has a human
\* entry (ENSG2 has a mouse entry only), and one row is written.
C13_Witness ==
    /\ pc = "written"
    /\ {r.targetId : r \in Range(final)} = {"ENSG1", "ENSG2"}
    /\ TaxonRowsOf("ENSG1") # {}
    /\ TaxonRowsOf("ENSG2") = {}
    /\ \E k \in DOMAIN gene2ensembl : gene2ensembl[k].Ensembl_gene_identifier = "ENSG2"
    /\ Len(output) = 1
    /\ Len(final) = 2

\* C14: the loaded gene crosswalk holds every source gene id of the selected taxon
\* once, with the target id of the first row in file order among the rows of that
\* taxon, and nothing else; the written table has no more rows than the aggregated one.
C14_FirstTargetPerSource ==
    pc \in {"written", "ZeroDivisionError"} =>
        /\ \A i, j \in DOMAIN entrez_map :
               entrez_map[i].ensemblGeneId = entrez_map[j].ensemblGeneId => i = j
        /\ \A e \in Range(entrez_map) :
               /\ TaxonRowsOf(e.ensemblGeneId) # {}
               /\ e.entrezGeneId = gene2ensembl[SetMin(TaxonRowsOf(e.ensemblGeneId))].GeneID
        /\ \A k \in DOMAIN gene2ensembl :
               gene2ensembl[k].tax_id = "9606" =>
                  \E e \in Range(entrez_map) :
                      e.ensemblGeneId = gene2ensembl[k].Ensembl_gene_identifier
        /\ pc = "written" => Len(output) <= Len(final)

\* C14 witness: two human rows give ENSG1 the target ids 7157 and then 672; the
\* crosswalk keeps 7157 and a row with 7157 is written.
C14_Witness ==
    /\ pc = "written"
    /\ Len(gene2ensembl) = 2
    /\ TaxonRowsOf("ENSG1") = {1, 2}
    /\ gene2ensembl[1].GeneID = "7157"
    /\ gene2ensembl[2].GeneID = "672"
    /\ entrez_map = <<[entrezGeneId |-> "7157", ensemblGeneId |-> "ENSG1"]>>
    /\ \E o \in Range(output) : o.gene_entrez_id = 7157

\* C15: the rows of the written table are in descending order of ot_score.
C15_SortedByScoreDescending ==
    pc = "written" =>
        \A i \in 1..(Len(output) - 1) : output[i].ot_score >= output[i + 1].ot_score

\* C15 witness: an aggregated table whose rows are not in descending order of score,
\* all of them mapped, written with the highest score first.
C15_Witness ==
    /\ pc = "written"
    /\ Len(output) = Len(final)
    /\ \E i, j \in DOMAIN final : i < j /\ final[i].score < final[j].score
    /\ output[1].ot_score > output[Len(output)].ot_score

(***************************************************************************)
(* The stages composed, in the order run_all runs them: the disease filter *)
(* and cross-reference extraction (Step 1), the hierarchy extraction, the  *)
(* crosswalk and the aggregation (Step 2), the Entrez mapping (Step 3).    *)
(* Each stage is handed the value the stage before it returned.            *)
(***************************************************************************)

\* build_crosswalk.run calls extract_mesh.run, which has the descriptor file parsed
\* into records before it extracts the hierarchy with prefix "C04.588".
LoadMeshRecords ==
    /\ pc = "mesh_ids"
    /\ pc' = "parsed"
    /\ UNCHANGED <<meshVars, diseaseVars, joinVars, entrezVars, runVars, netVars>>

E2EDiseases ==
    {<<DiseaseRow("EFO_1", ListCell(<<CancerTA>>), ListCell(<<Some("MeSH:D001943")>>))>>,
     <<DiseaseRow(CancerTA, ListCell(<<CancerTA>>), ListCell(<<Some("MeSH:D001943")>>)),
       DiseaseRow("EFO_1", ListCell(<<CancerTA>>), ListCell(<<Some("MeSH:D001943")>>)),
       DiseaseRow("EFO_2", ListCell(<<"EFO_9", CancerTA>>),
                  ListCell(<<Some("OMIM:9"), Some("mesh:D001943"), Some("MESH:D2")>>))>>,
     <<DiseaseRow("EFO_1", NoneCell, ListCell(<<Some("MeSH:D001943")>>)),
       DiseaseRow("EFO_2", ListCell(<<CancerTA>>), ListCell(<<Some("MeSH:D2")>>))>>,
     <<DiseaseRow("EFO_1", ListCell(<<CancerTA>>), ListCell(<<Some("OMIM:9")>>))>>}

E2ERecords ==
    {<<DictSet(Descriptor("D001943"), "MN", <<"C04.588.1">>)>>,
     <<DictSet(Descriptor("D001943"), "MN", <<"C04.588.2.3", "C04.588.1", "C04.1">>),
       DictSet(Descriptor("D2"), "MN", <<"C04.588.2">>)>>,
     <<DictSet(Descriptor("D001943"), "MN", <<"C04.1">>)>>}

E2EAssociations ==
    {<<AssocRow("EFO_1", "ENSG1", 9, 4)>>,
     <<AssocRow("EFO_2", "ENSG2", 9, 1), AssocRow("EFO_1", "ENSG1", 9, 4),
       AssocRow("EFO_2", "ENSG1", 5, 2), AssocRow("EFO_3", "ENSG1", 10, 7)>>,
     <<AssocRow("EFO_3", "ENSG1", 10, 7)>>,
     <<AssocRow(CancerTA, "ENSG1", 10, 7), AssocRow("EFO_1", "ENSG1", 9, 4)>>}

E2EGeneRows ==
    {<<[tax_id |-> "9606", GeneID |-> "7157", Ensembl_gene_identifier |-> "ENSG1"]>>,
     <<[tax_id |-> "10090", GeneID |-> "672", Ensembl_gene_identifier |-> "ENSG1"],
       [tax_id |-> "9606", GeneID |-> "7157", Ensembl_gene_identifier |-> "ENSG1"],
       [tax_id |-> "9606", GeneID |-> "672", Ensembl_gene_identifier |-> "ENSG1"],
       [tax_id |-> "9606", GeneID |-> "7157", Ensembl_gene_identifier |-> "ENSG2"]>>,
     <<[tax_id |-> "10090", GeneID |-> "7157", Ensembl_gene_identifier |-> "ENSG1"]>>}

InitE2E ==
    /\ pc = "loaded"
    /\ diseases \in E2EDiseases
    /\ records \in E2ERecords
    /\ associations \in E2EAssociations
    /\ gene2ensembl \in E2EGeneRows
    /\ prefix = "C04.588"
    /\ lines = <<>>
    /\ current = EmptyDict
    /\ mesh_hierarchy = <<>>
    /\ filtered = <<>>
    /\ cancer_diseases = <<>>
    /\ crosswalk = <<>>
    /\ final = <<>>
    /\ entrez_map = <<>>
    /\ output = <<>>
    /\ files = <<>>
    /\ previous_output = <<>>
    /\ force = FALSE
    /\ downloads = 0

NextE2E ==
    \/ FilterCancerDiseases
    \/ ExtractMeshIds
    \/ LoadMeshRecords
    \/ ExtractC04Hierarchy
    \/ BuildDiseaseMeshCrosswalk
    \/ BuildFinalDataset
    \/ AddEntrezRun

SpecE2E == InitE2E /\ [][NextE2E]_vars

(***************************************************************************)
(* Claims on the composed stages                                           *)
(***************************************************************************)

\* the inputs of the end-to-end example: the disease row, the association row, a
\* taxonomy that has D001943 at C04.588.1 and a gene table whose first human row for
\* ENSG1 names 7157
ExampleInputs ==
    /\ diseases = <<DiseaseRow("EFO_1", ListCell(<<"EFO_0000616">>),
                               ListCell(<<Some("MeSH:D001943")>>))>>
    /\ associations = <<AssocRow("EFO_1", "ENSG1", 9, 4)>>
    /\ \E r \in Range(records) : r["UI"] = "D001943" /\ "C04.588.1" \in Range(r["MN"])
    /\ \E i \in DOMAIN gene2ensembl :
          /\ gene2ensembl[i] = [tax_id |-> "9606", GeneID |-> "7157",
                                Ensembl_gene_identifier |-> "ENSG1"]
          /\ \A j \in 1..(i - 1) : gene2ensembl[j].tax_id # "9606"

\* C7: on the inputs of the end-to-end example no stage fails, and the final table
\* written is exactly the one row (D001943, 7157, 0.9, 4).
C7_EndToEndExample ==
    ExampleInputs =>
        /\ pc \notin {"extract_KeyError", "crosswalk_KeyError", "ZeroDivisionError"}
        /\ pc = "written" =>
              output = <<[disease_mesh_id |-> "D001943", gene_entrez_id |-> 7157,
                          ot_score |-> 9, evidence_count |-> 4]>>

\* C7 witness: the example run to its end, the hierarchy holding the single path
\* C04.588.1 and the gene table the single row ENSG1 -> 7157.
C7_Witness ==
    /\ ExampleInputs
    /\ Len(records) = 1 /\ records[1]["MN"] = <<"C04.588.1">>
    /\ Len(gene2ensembl) = 1
    /\ pc = "written"
    /\ Len(output) = 1
    /\ output[1].gene_entrez_id = 7157

\* every input association has a score in [0, 1] (0..10 tenths) and a non-negative
\* evidence count
AssociationsInRange ==
    \A a \in Range(associations) :
        a.score >= 0 /\ a.score <= 10 /\ a.evidenceCount >= 0

\* C18: when every input association has its score in [0, 1] and a non-negative
\* evidence count, every row of the aggregated table and every row of the final output
\* has its score in [0, 1] and a non-negative evidence count.
C18_RangesPreserved ==
    AssociationsInRange =>
        /\ \A r \in Range(final) :
               r.score >= 0 /\ r.score <= 10 /\ r.evidenceCount >= 0
        /\ \A o \in Range(output) :
               o.ot_score >= 0 /\ o.ot_score <= 10 /\ o.evidence_count >= 0

\* C18 witness: two associations of scores 0.9 and 0.5 aggregated into one written row
\* of score 0.9 and evidence count 4 + 2.
C18_Witness ==
    /\ pc = "written"
    /\ AssociationsInRange
    /\ \E a, b \in Range(associations) :
          a.score = 9 /\ b.score = 5 /\ a.targetId = b.targetId
    /\ \E r \in Range(final) : r.score = 9 /\ r.evidenceCount = 6
    /\ \E o \in Range(output) : o.ot_score = 9 /\ o.evidence_count = 6

(***************************************************************************)
(* The composed stages run a second time on the same, unchanged inputs     *)
(***************************************************************************)

\* run_all.main is started again: the inputs are as they were, the table the first
\* run wrote is remembered, and every stage recomputes its table.
RunAgain ==
    /\ pc = "written"
    /\ previous_output = None
    /\ previous_output' = Some(output)
    /\ pc' = "loaded"
    /\ UNCHANGED <<meshVars, diseaseVars, joinVars, entrezVars, files, netVars>>

NextRerun ==
    \/ FilterCancerDiseases
    \/ ExtractMeshIds
    \/ LoadMeshRecords
    \/ ExtractC04Hierarchy
    \/ BuildDiseaseMeshCrosswalk
    \/ BuildFinalDataset
    \/ AddEntrezRun
    \/ RunAgain

SpecRerun == InitE2E /\ [][NextRerun]_vars

Directory == "<directory>"

ProcessedDir    == "data/processed"
IntermediateDir == "data/processed/intermediate"
CrosswalksDir   == "data/processed/crosswalks"

\* extract_diseases.run: output_dir / "cancer_diseases_mesh_crosswalk.parquet"
Step1OutputPath == "data/processed/intermediate/cancer_diseases_mesh_crosswalk.parquet"
\* load_cancer_diseases: processed_dir / "cancer_diseases_mesh_crosswalk.parquet"
Step2InputPath  == "data/processed/cancer_diseases_mesh_crosswalk.parquet"
\* build_crosswalk.run: processed_dir / "intermediate" / "gene_mesh_pre_entrez.parquet"
Step2OutputPath == "data/processed/intermediate/gene_mesh_pre_entrez.parquet"
\* add_entrez.run: processed_dir / "intermediate" / "gene_mesh_pre_entrez.parquet"
Step3InputPath  == "data/processed/intermediate/gene_mesh_pre_entrez.parquet"
MeshCsvPath      == "data/mesh/mesh_c04_588_site.csv"
CrosswalkCsvPath == "data/processed/crosswalks/disease_mesh_crosswalk.csv"
EntrezCsvPath    == "data/processed/crosswalks/ensembl_entrez.csv"
FinalOutputPath  == "data/processed/gene_disease_mesh_final.tsv"

\* path.exists()
Exists(fs, path) == path \in DOMAIN fs

\* ensure_dir(path): path.mkdir(parents=True, exist_ok=True)
EnsureDir(fs, path) ==
    [x \in (DOMAIN fs) \cup {ProcessedDir, path} |-> IF x \in DOMAIN fs THEN fs[x] ELSE Directory]

\* Mutant of Step1FirstError: the message names neither the path nor the stage.
Step1FirstErrorBare(path) == "FileNotFoundError"

\* raise FileNotFoundError(f"Run Step 1 first: {path}")
Step1FirstError(path) == "FileNotFoundError: Run Step 1 first: " \o path

\* raise FileNotFoundError(f"Run Step 2 first: {input_path}")
Step2FirstError(path) == "FileNotFoundError: Run Step 2 first: " \o path

\* what the entry point does when its stage is over: run_all goes on to the next
\* stage, a stage invoked on its own returns
\* (variant: run_all starts Step 3 as soon as Step 1 has returned)
AfterStageSkipsAhead(entry, next, alone) ==
    IF entry = "run_all" THEN "run_all:step3"
    ELSE IF entry = "run_all:step2" \/ entry = "run_all:step3" THEN next ELSE alone

AfterStage(entry, next, alone) == IF entry = "run_all" \/ entry = "run_all:step2"
                                     \/ entry = "run_all:step3" THEN next ELSE alone

\* extract_diseases.run: the index is loaded, filtered, its cross-references extracted
\* and the table saved under intermediate/.
Step1Run ==
    /\ pc \in {"run_all", "extract_diseases"}
    /\ filtered' = FilterRows(diseases, CancerTA)
    /\ cancer_diseases' = MeshIdRows(filtered')
    /\ files' = DictSet(EnsureDir(files, IntermediateDir), Step1OutputPath, cancer_diseases')
    /\ pc' = AfterStage(pc, "run_all:step2", "extract_diseases:returned")
    /\ UNCHANGED <<meshVars, diseases, joinVars, entrezVars, previous_output, netVars>>

\* build_crosswalk.run: the directories are made, the disease table of Step 1 loaded,
\* the hierarchy extracted and saved, the crosswalk built and saved, the aggregated
\* table built and saved under intermediate/ (a directory this stage does not make).
Step2Run ==
    /\ pc \in {"run_all:step2", "build_crosswalk"}
    /\ LET dirs == EnsureDir(files, CrosswalksDir)
           rows == HierRows(records, "C04.588")
           hier == SortHierarchy(rows)
           withHier == DictSet(dirs, MeshCsvPath, hier)
       IN  IF ~Exists(dirs, Step2InputPath)
           THEN /\ pc' = Step1FirstError(Step2InputPath)
                /\ files' = dirs
                /\ UNCHANGED <<cancer_diseases, mesh_hierarchy, crosswalk, final>>
           ELSE /\ cancer_diseases' = dirs[Step2InputPath]
                /\ IF rows = <<>>
                   THEN /\ pc' = "KeyError: tree_number"
                        /\ files' = dirs
                        /\ UNCHANGED <<mesh_hierarchy, crosswalk, final>>
                   ELSE /\ mesh_hierarchy' = hier
                        /\ IF ExplodeMeshIds(cancer_diseases') = <<>>
                           THEN /\ pc' = "KeyError: meshId"
                                /\ files' = withHier
                                /\ UNCHANGED <<crosswalk, final>>
                           ELSE /\ crosswalk' \in DedupOutcomes(
                                       MergeHierarchy(ExplodeMeshIds(cancer_diseases'), hier))
                                /\ final' = GroupAggregate(JoinCrosswalk(
                                       FilterAssociations(associations, crosswalk'), crosswalk'))
                                /\ LET withXw == DictSet(withHier, CrosswalkCsvPath, crosswalk')
                                   IN  IF ~Exists(withXw, IntermediateDir)
                                       THEN /\ pc' = "OSError: " \o Step2OutputPath
                                            /\ files' = withXw
                                       ELSE /\ pc' = AfterStage(pc, "run_all:step3",
                                                                "build_crosswalk:returned")
                                            /\ files' = DictSet(withXw, Step2OutputPath, final')
    /\ UNCHANGED <<lines, current, records, prefix, diseases, filtered, associations,
                   entrezVars, previous_output, netVars>>

\* add_entrez.run: the directory is made, the aggregated table of Step 2 loaded, the
\* gene crosswalk loaded and saved, the table merged, sorted and written.
Step3Run ==
    /\ pc \in {"run_all:step3", "add_entrez"}
    /\ LET dirs == EnsureDir(files, CrosswalksDir)
       IN  IF ~Exists(dirs, Step3InputPath)
           THEN /\ pc' = Step2FirstError(Step3InputPath)
                /\ files' = dirs
                /\ UNCHANGED <<final, entrez_map, output>>
           ELSE /\ final' = dirs[Step3InputPath]
                /\ entrez_map' = LoadGene2Ensembl(gene2ensembl, HUMAN_TAX_ID)
                /\ LET merged  == MergeEntrez(final', entrez_map')
                       withMap == DictSet(dirs, EntrezCsvPath, entrez_map')
                   IN  IF Verbose /\ Len(merged) = 0
                       THEN /\ pc' = "ZeroDivisionError"
                            /\ files' = withMap
                            /\ output' = output
                       ELSE /\ output' \in SortByScoreDescending(
                                   FinalColumns(DropMissingEntrez(merged)))
                            /\ files' = DictSet(withMap, FinalOutputPath, output')
                            /\ pc' = AfterStage(pc, "run_all:complete", "add_entrez:returned")
    /\ UNCHANGED <<meshVars, diseaseVars, associations, crosswalk, gene2ensembl,
                   previous_output, netVars>>

\* A disease table saved at the path Step 2 reads by something other than this
\* pipeline's Step 1 (no stage writes that path).
LegacyDiseases ==
    <<[diseaseId |-> "EFO_2", diseaseName |-> "nEFO_2", meshIds |-> Some(<<"D001943">>)]>>

\* The workspaces a stage is started in: clean; holding only a disease table put at
\* the path Step 2 reads; holding the Step 1 artifact of an earlier run; holding the
\* artifacts of earlier runs of every stage.
Workspaces ==
    LET legacy == DictSet(DictSet(EmptyDict, ProcessedDir, Directory),
                          Step2InputPath, LegacyDiseases)
        step1  == DictSet(EnsureDir(EmptyDict, IntermediateDir), Step1OutputPath, LegacyDiseases)
        all    == DictSet(DictSet(EnsureDir(EnsureDir(legacy, IntermediateDir), CrosswalksDir),
                                  Step1OutputPath, LegacyDiseases),
                          Step2OutputPath,
                          <<[targetId |-> "ENSG1", meshId |-> "D001943",
                             score |-> 5, evidenceCount |-> 2]>>)
    IN  {EmptyDict, legacy, step1, all}

EntryPoints == {"run_all", "extract_diseases", "build_crosswalk", "add_entrez"}

InitRun ==
    /\ pc \in EntryPoints
    /\ files \in Workspaces
    /\ diseases \in E2EDiseases
    /\ records \in E2ERecords
    /\ associations \in E2EAssociations
    /\ gene2ensembl \in E2EGeneRows
    /\ prefix = "C04.588"
    /\ lines = <<>>
    /\ current = EmptyDict
    /\ mesh_hierarchy = <<>>
    /\ filtered = <<>>
    /\ cancer_diseases = <<>>
    /\ crosswalk = <<>>
    /\ final = <<>>
    /\ entrez_map = <<>>
    /\ output = <<>>
    /\ previous_output = <<>>
    /\ force = FALSE
    /\ downloads = 0

NextRun ==
    \/ Step1Run
    \/ Step2Run
    \/ Step3Run

SpecRun == InitRun /\ [][NextRun]_vars

(***************************************************************************)
(* Claims on the stage entry points                                        *)
(***************************************************************************)

\* the text sub occurs in the text s
Contains(s, sub) ==
    \E i \in 1..(Len(s) - Len(sub) + 1) : SubSeq(s, i, i + Len(sub) - 1) = sub

\* the exception text names the path expected and the stage to run first
NamesPathAndStage(text, path, stage) ==
    /\ Contains(text, "FileNotFoundError")
    /\ Contains(text, path)
    /\ Contains(text, "Run " \o stage \o " first")

\* the step leaves every file as it was and writes none (directories aside)
NoFileWritten ==
    \A p \in (DOMAIN files') \ {ProcessedDir, IntermediateDir, CrosswalksDir} :
        p \in DOMAIN files /\ files'[p] = files[p]

\* C17: a stage started while the file it loads from the preceding stage is absent
\* raises an error naming that path and the stage to run first, writes no file and no
\* final table: build_crosswalk.run without the disease file, add_entrez.run without
\* the gene-term file.
C17_MissingArtifactIsFatal ==
    [][/\ (pc \in {"run_all:step2", "build_crosswalk"} /\ ~Exists(files, Step2InputPath)) =>
            /\ NamesPathAndStage(pc', Step2InputPath, "Step 1")
            /\ NoFileWritten
            /\ output' = output
       /\ (pc \in {"run_all:step3", "add_entrez"} /\ ~Exists(files, Step3InputPath)) =>
            /\ NamesPathAndStage(pc', Step3InputPath, "Step 2")
            /\ NoFileWritten
            /\ output' = output]_vars

\* C17 witness: add_entrez.run has raised 'Run Step 2 first' naming the gene-term file,
\* and the workspace holds neither that file nor a final table.
C17_Witness ==
    /\ pc = "FileNotFoundError: Run Step 2 first: data/processed/intermediate/gene_mesh_pre_entrez.parquet"
    /\ ~Exists(files, "data/processed/intermediate/gene_mesh_pre_entrez.parquet")
    /\ ~Exists(files, FinalOutputPath)
    /\ output = <<>>

\* C20: Step 2 fails with 'Run Step 1 first' only when the file Step 1 writes is
\* absent, and the disease table it has read is the one in the file Step 1 wrote;
\* Step 3 fails with 'Run Step 2 first' only when the file Step 2 writes is absent,
\* and the table it has read is the one in the file Step 2 wrote.
C20_StageReadsWhatPreviousWrote ==
    /\ Contains(pc, "Run Step 1 first") => ~Exists(files, Step1OutputPath)
    /\ pc \in {"run_all:step3", "build_crosswalk:returned"} =>
          /\ Exists(files, Step1OutputPath)
          /\ cancer_diseases = files[Step1OutputPath]
    /\ Contains(pc, "Run Step 2 first") => ~Exists(files, Step2OutputPath)
    /\ pc \in {"run_all:complete", "add_entrez:returned"} =>
          /\ Exists(files, Step2OutputPath)
          /\ final = files[Step2OutputPath]

(***************************************************************************)
(* Claims on the empty cases of extract_c04_hierarchy and                  *)
(* build_disease_mesh_crosswalk                                            *)
(***************************************************************************)

\* no tree path of any record starts with the prefix
NothingQualifies ==
    \A r \in Range(records) : \A t \in Range(r["MN"]) : ~IsStringPrefix(prefix, t)

\* C25: when no tree path of any record starts with the prefix (the record sequence
\* may be empty), extract_c04_hierarchy returns a hierarchy of zero entries and does
\* not raise.
C25_EmptyHierarchyReturned ==
    (NothingQualifies /\ pc # "parsed") => (pc = "extracted" /\ mesh_hierarchy = <<>>)

\* no Disease Record has cross_ref_ids
NoCrossRefIds == \A d \in Range(cancer_diseases) : d.meshIds = None

\* C26: when no Disease Record has cross_ref_ids (each is absent, or the table is
\* empty), build_disease_mesh_crosswalk returns an empty crosswalk and does not raise.
C26_EmptyCrosswalkReturned ==
    (NoCrossRefIds /\ pc # "extracted") => (pc = "crosswalk" /\ crosswalk = <<>>)

(***************************************************************************)
(* Claims on run_all                                                       *)
(***************************************************************************)

\* the positions of a run that has not raised
RunPositions ==
    EntryPoints \cup {"run_all:step2", "run_all:step3", "run_all:complete",
                      "extract_diseases:returned", "build_crosswalk:returned",
                      "add_entrez:returned"}

\* the run has ended in an exception
Raised(text) == text \notin RunPositions

\* the step leaves the final output file as it was
FinalFileUntouched ==
    IF Exists(files, FinalOutputPath)
    THEN Exists(files', FinalOutputPath) /\ files'[FinalOutputPath] = files[FinalOutputPath]
    ELSE ~Exists(files', FinalOutputPath)

\* C21: run_all runs Step 1, then Step 2, then Step 3, each one starting only when the
\* one before it has returned; a stage that raises ends the run: nothing runs after
\* it, and the step that raised has not written the final output file.
C21_StagesInOrderStopOnError ==
    [][/\ (pc' = "run_all:step2") => (pc = "run_all" /\ Exists(files', Step1OutputPath))
       /\ (pc' = "run_all:step3") => (pc = "run_all:step2" /\ Exists(files', Step2OutputPath))
       /\ (pc' = "run_all:complete") => (pc = "run_all:step3" /\ Exists(files', FinalOutputPath))
       /\ ~Raised(pc)
       /\ Raised(pc') => (FinalFileUntouched /\ output' = output)]_vars

\* C21 witness: run_all has run Step 1 (its table is saved), Step 2 has raised, and
\* the workspace holds no final output file and no final table.
C21_Witness ==
    /\ Raised(pc)
    /\ filtered # <<>>
    /\ Exists(files, Step1OutputPath)
    /\ files[Step1OutputPath] = cancer_diseases
    /\ ~Exists(files, FinalOutputPath)
    /\ output = <<>>

(***************************************************************************)
(* build_crosswalk.run from the crosswalk on, followed by add_entrez.run   *)
(***************************************************************************)

\* The disease tables of the modelled runs, each as extract_mesh_ids returns it; a
\* disease may list a term twice.
JoinDiseases ==
    {GroupDiseases(es) : es \in
        {<<<<"EFO_1", "D1">>, <<"EFO_1", "D1">>>>,
         <<<<"EFO_1", "D1">>, <<"EFO_2", "D1">>>>,
         <<<<"EFO_1", "D1">>, <<"EFO_1", "D2">>, <<"EFO_2", "D2">>>>,
         <<<<"EFO_1", "D2">>, <<"EFO_2", "">>>>,
         <<<<"EFO_1", "D9">>, <<"EFO_2", "D1">>>>,
         <<<<"EFO_1", "D1">>>>}}

JoinAssociations ==
    {<<AssocRow("EFO_1", "ENSG1", 8, 5)>>,
     <<AssocRow("EFO_1", "ENSG1", 8, 5), AssocRow("EFO_2", "ENSG1", 6, 3)>>,
     <<AssocRow("EFO_2", "ENSG2", 6, 3), AssocRow("EFO_1", "ENSG1", 8, 5),
       AssocRow("EFO_1", "ENSG2", 8, 5)>>,
     <<AssocRow("EFO_3", "ENSG1", 8, 5), AssocRow("EFO_1", "ENSG1", 6, 3),
       AssocRow("EFO_1", "ENSG1", 8, 5)>>}

InitJoin ==
    /\ pc = "extracted"
    /\ cancer_diseases \in JoinDiseases
    /\ mesh_hierarchy \in HierarchyInputs
    /\ associations \in JoinAssociations
    /\ gene2ensembl \in E2EGeneRows
    /\ prefix = "C04.588"
    /\ lines = <<>>
    /\ current = EmptyDict
    /\ records = <<>>
    /\ diseases = <<>>
    /\ filtered = <<>>
    /\ crosswalk = <<>>
    /\ final = <<>>
    /\ entrez_map = <<>>
    /\ output = <<>>
    /\ files = <<>>
    /\ previous_output = <<>>
    /\ force = FALSE
    /\ downloads = 0

NextJoin ==
    \/ BuildDiseaseMeshCrosswalk
    \/ BuildFinalDataset
    \/ AddEntrezRun

SpecJoin == InitJoin /\ [][NextJoin]_vars

(***************************************************************************)
(* Claims on the join: the pre-filter, polyhierarchy, the retained path    *)
(***************************************************************************)

\* C28: the aggregated table build_final_dataset returns is the one obtained by
\* joining and aggregating the association table as loaded, without the filter to
\* the disease ids of the crosswalk.
C28_PrefilterChangesNothing ==
    (pc = "aggregated") =>
        final = GroupAggregate(JoinCrosswalk(associations, crosswalk))

\* C28 witness: the filter has dropped an association of a disease the crosswalk
\* does not hold, kept another, and the aggregated table has a row.
C28_Witness ==
    /\ pc = "aggregated"
    /\ final # <<>>
    /\ FilterAssociations(associations, crosswalk) # associations
    /\ FilterAssociations(associations, crosswalk) # <<>>

\* the association rows of gene g whose disease lists term t, t a term of the hierarchy
RowsMappedTo(g, t) ==
    {k \in DOMAIN associations :
        /\ associations[k].targetId = g
        /\ t \in CrossRefIdsOf(associations[k].diseaseId)
        /\ LevelsOf(t) # {}}

RECURSIVE EvidenceOfRows(_)
EvidenceOfRows(K) ==
    IF K = {} THEN 0
    ELSE LET k == CHOOSE x \in K : TRUE
         IN  associations[k].evidenceCount + EvidenceOfRows(K \ {k})

\* the number of hierarchy entries (tree paths) of term t
PathsOf(t) == Cardinality({i \in DOMAIN mesh_hierarchy : mesh_hierarchy[i].mesh_id = t})

\* C27: the evidence count of the aggregated row (gene, term) is the sum of the
\* evidence counts of the association rows of that gene whose disease lists the term,
\* each row counted once, however many tree paths the term has and however often the
\* disease lists it.
C27_EvidenceCountedOncePerAssociation ==
    (pc = "aggregated") =>
        /\ \A k \in DOMAIN final :
              final[k].evidenceCount =
                  EvidenceOfRows(RowsMappedTo(final[k].targetId, final[k].meshId))
        /\ \A g \in {a.targetId : a \in Range(associations)},
              t \in {h.mesh_id : h \in Range(mesh_hierarchy)} :
              RowsMappedTo(g, t) # {} =>
                  \E k \in DOMAIN final : final[k].targetId = g /\ final[k].meshId = t

\* C27 witness: term D1 has two tree paths and disease EFO_1 lists it twice; the one
\* association of EFO_1, of evidence count 5, gives the row (ENSG1, D1) the count 5.
C27_Witness ==
    /\ pc = "aggregated"
    /\ PathsOf("D1") = 2
    /\ \E k \in DOMAIN cancer_diseases : cancer_diseases[k].meshIds = Some(<<"D1", "D1">>)
    /\ associations = <<AssocRow("EFO_1", "ENSG1", 8, 5)>>
    /\ final = <<[targetId |-> "ENSG1", meshId |-> "D1", score |-> 8, evidenceCount |-> 5]>>

\* the (disease, term) pairs of a crosswalk
PairsOf(xw) == {<<x.diseaseId, x.meshId>> : x \in Range(xw)}

\* the rows that may stand for crosswalk row x: the same pair with the path of any
\* hierarchy entry of the term at the level of x
AltRows(x) ==
    {[x EXCEPT !.tree_number = h.tree_number] :
        h \in {e \in Range(mesh_hierarchy) : e.mesh_id = x.meshId /\ e.level = x.level}}

\* the crosswalks that differ from the one built only in the path retained among
\* entries of equal level, or in row order
AltCrosswalks ==
    LET n == Len(crosswalk)
        perms == {q \in [1..n -> 1..n] : \A i, j \in 1..n : q[i] = q[j] => i = j}
    IN  UNION {{ys \in [1..n -> UNION {AltRows(crosswalk[i]) : i \in 1..n}] :
                   \A i \in 1..n : ys[i] \in AltRows(crosswalk[q[i]])} : q \in perms}

\* build_final_dataset on crosswalk xw
AggregatedFrom(xw) == GroupAggregate(JoinCrosswalk(FilterAssociations(associations, xw), xw))

\* the final tables add_entrez.run can write for the aggregated table agg
FinalTablesFrom(agg) ==
    SortByScoreDescending(FinalColumns(DropMissingEntrez(MergeEntrez(agg, entrez_map))))

\* C29: every crosswalk with the pairs of the one built, whichever path of equal
\* lowest level it retains and in whatever row order, gives the aggregated table the
\* run has built, and the final table the run has written is one that crosswalk gives.
C29_OnlyThePairsMatter ==
    /\ (pc \in {"aggregated", "written"}) =>
            \A xw \in AltCrosswalks : PairsOf(xw) = PairsOf(crosswalk) /\ AggregatedFrom(xw) = final
    /\ (pc = "written") =>
            \A xw \in AltCrosswalks : output \in FinalTablesFrom(AggregatedFrom(xw))

\* C29 witness: term D1 has two paths of level 3, so a crosswalk retaining the other
\* path exists, and one in another row order; the final table has been written.
C29_Witness ==
    /\ pc = "written"
    /\ output # <<>>
    /\ Len(crosswalk) = 2
    /\ \E xw \in AltCrosswalks : xw[1].tree_number # crosswalk[1].tree_number
    /\ \E xw \in AltCrosswalks : xw[1].diseaseId # crosswalk[1].diseaseId

(***************************************************************************)
(* Claims on the provenance of the final rows                              *)
(***************************************************************************)

\* the cross-reference list of the index row holds a MeSH-tagged reference to term t
RefersTo(row, t) ==
    /\ row.dbXRefs.kind = "list"
    /\ \E i \in DOMAIN row.dbXRefs.items :
          LET ref == row.dbXRefs.items[i]
          IN  /\ ref # None
              /\ Len(ref[1]) >= 5
              /\ Lower(SubSeq(ref[1], 1, 5)) = "mesh:"
              /\ SubSeq(ref[1], 6, Len(ref[1])) = t

\* the association rows of gene g whose disease is in the cancer subtree, is not its
\* root, and refers to term t
Backing(t, g) ==
    {k \in DOMAIN associations :
        /\ associations[k].targetId = g
        /\ \E d \in DOMAIN diseases :
              /\ diseases[d].id = associations[k].diseaseId
              /\ ListsRoot(diseases[d])
              /\ diseases[d].id # CancerTA
              /\ RefersTo(diseases[d], t)}

\* a descriptor record of term t has a tree path that starts with the prefix
TermInSubtree(t) ==
    \E r \in DOMAIN records :
        /\ records[r]["UI"] = t
        /\ \E i \in DOMAIN records[r]["MN"] :
              IsStringPrefix(prefix, records[r]["MN"][i])

\* C30: every row (term, target) of the final table has a source gene the selected
\* taxon maps to the target and a non-empty set of associations of that gene whose
\* disease lists the cancer root as ancestor, is not the root, and refers to the
\* term; the term has a path under the prefix; and score and evidence count of the
\* row are the greatest score and the summed count of exactly those associations.
C30_FinalRowsTraceable ==
    (pc = "written") =>
        \A n \in DOMAIN output :
            /\ TermInSubtree(output[n].disease_mesh_id)
            /\ \E g \in {a.targetId : a \in Range(associations)} :
                  LET B == Backing(output[n].disease_mesh_id, g)
                  IN  /\ \E k \in TaxonRowsOf(g) :
                            EntrezNumber(gene2ensembl[k].GeneID) = output[n].gene_entrez_id
                      /\ B # {}
                      /\ \E k \in B : associations[k].score = output[n].ot_score
                      /\ \A k \in B : associations[k].score <= output[n].ot_score
                      /\ output[n].evidence_count = EvidenceOfRows(B)

\* C30 witness: a final table with a row for term D2 has been written from inputs in
\* which a disease without ancestor list refers to a term under the prefix and has
\* an association; that term has no row.
C30_Witness ==
    /\ pc = "written"
    /\ \E n \in DOMAIN output : output[n].disease_mesh_id = "D2"
    /\ \E k \in DOMAIN associations, d \in DOMAIN diseases :
          /\ diseases[d].id = associations[k].diseaseId
          /\ ~ListsRoot(diseases[d])
          /\ RefersTo(diseases[d], "D001943")
    /\ TermInSubtree("D001943")
    /\ \A n \in DOMAIN output : output[n].disease_mesh_id # "D001943"

(***************************************************************************)
(* extract_mesh.download_mesh, add_entrez.download_gene2ensembl            *)
(***************************************************************************)

MeshDir          == "data/mesh"
MeshPath         == "data/mesh/d2025.bin"
NcbiDir          == "data/ncbi"
Gene2EnsemblPath == "data/ncbi/gene2ensembl.gz"

\* The descriptor file the server holds, and a copy cached from an earlier release.
MeshSource     == <<"*NEWRECORD", "UI = D1", "MN = C04.588.1">>
OlderMeshText  == <<"*NEWRECORD", "UI = D2", "MN = C04.588.2">>

\* The gene table the server holds, and a copy cached from an earlier release.
Gene2EnsemblSource ==
    <<[tax_id |-> "9606", GeneID |-> "7157", Ensembl_gene_identifier |-> "ENSG1"],
      [tax_id |-> "9606", GeneID |-> "672", Ensembl_gene_identifier |-> "ENSG2"]>>
OlderGeneRows ==
    <<[tax_id |-> "9606", GeneID |-> "672", Ensembl_gene_identifier |-> "ENSG1"]>>

\* what a transfer that breaks off has written: the content up to some point short
\* of its end
StrictPrefixes(content) == {SubSeq(content, 1, n) : n \in 0..(Len(content) - 1)}

\* ensure_dir(path) for a directory outside the processed tree
MakeDir(fs, path) ==
    [x \in (DOMAIN fs) \cup {path} |-> IF x \in DOMAIN fs THEN fs[x] ELSE Directory]

\* (variant: a cached file is used whatever force says)
UseCachedIgnoresForce(fs, path, f) == Exists(fs, path)

\* if path.exists() and not force
UseCached(fs, path, f) == Exists(fs, path) /\ ~f

\* (variant: a transfer that fails is requested a second time, and fails again)
UrlRetrieveRetrying(fs, path, content) ==
    {[raised |-> FALSE, files |-> DictSet(fs, path, content), requests |-> 1],
     [raised |-> TRUE, files |-> fs, requests |-> 2]}
    \cup {[raised |-> TRUE, files |-> DictSet(fs, path, part), requests |-> 2] :
              part \in StrictPrefixes(content)}

\* urllib.request.urlretrieve(url, path): the outcomes of the one request it makes.
\* It returns with the whole content written; or raises before the file is opened;
\* or raises while the content is being written, leaving what was written.
UrlRetrieve(fs, path, content) ==
    {[raised |-> FALSE, files |-> DictSet(fs, path, content), requests |-> 1],
     [raised |-> TRUE, files |-> fs, requests |-> 1]}
    \cup {[raised |-> TRUE, files |-> DictSet(fs, path, part), requests |-> 1] :
              part \in StrictPrefixes(content)}

\* download_mesh(config, force)
DownloadMesh ==
    /\ pc = "download_mesh"
    /\ LET dirs == MakeDir(files, MeshDir)
       IN  IF UseCached(dirs, MeshPath, force)
           THEN /\ pc' = "mesh_path"
                /\ files' = dirs
                /\ downloads' = downloads
           ELSE \E o \in UrlRetrieve(dirs, MeshPath, MeshSource) :
                    /\ files' = o.files
                    /\ downloads' = downloads + o.requests
                    /\ pc' = IF o.raised THEN "URLError" ELSE "mesh_path"
    /\ UNCHANGED <<meshVars, diseaseVars, joinVars, entrezVars, previous_output, force>>

\* parse_mesh_file(mesh_path): the file at the path returned is opened and read
OpenMeshFile ==
    /\ pc = "mesh_path"
    /\ lines' = files[MeshPath]
    /\ pc' = "mesh_opened"
    /\ UNCHANGED <<current, records, prefix, mesh_hierarchy, diseaseVars, joinVars,
                   entrezVars, runVars, netVars>>

\* download_gene2ensembl(config, force)
DownloadGene2Ensembl ==
    /\ pc = "download_gene2ensembl"
    /\ LET dirs == MakeDir(files, NcbiDir)
       IN  IF UseCached(dirs, Gene2EnsemblPath, force)
           THEN /\ pc' = "gz_path"
                /\ files' = dirs
                /\ downloads' = downloads
           ELSE \E o \in UrlRetrieve(dirs, Gene2EnsemblPath, Gene2EnsemblSource) :
                    /\ files' = o.files
                    /\ downloads' = downloads + o.requests
                    /\ pc' = IF o.raised THEN "URLError" ELSE "gz_path"
    /\ UNCHANGED <<meshVars, diseaseVars, joinVars, entrezVars, previous_output, force>>

\* load_gene2ensembl(gz_path): the file at the path returned is opened and read
OpenGene2Ensembl ==
    /\ pc = "gz_path"
    /\ gene2ensembl' = files[Gene2EnsemblPath]
    /\ pc' = "gz_opened"
    /\ UNCHANGED <<meshVars, diseaseVars, joinVars, entrez_map, output, runVars, netVars>>

\* A later run: one of the two functions is called again, on the files the runs
\* before have left.
CallAgain ==
    /\ pc \in {"URLError", "mesh_opened", "gz_opened"}
    /\ pc' \in {"download_mesh", "download_gene2ensembl"}
    /\ force' \in BOOLEAN
    /\ downloads' = 0
    /\ lines' = <<>>
    /\ gene2ensembl' = <<>>
    /\ UNCHANGED <<current, records, prefix, mesh_hierarchy, diseaseVars, joinVars,
                   entrez_map, output, runVars>>

\* The cache directories a first call finds: empty, or holding an older copy of one
\* file or of both.
Caches ==
    LET mesh == DictSet(MakeDir(EmptyDict, MeshDir), MeshPath, OlderMeshText)
        gene == DictSet(MakeDir(EmptyDict, NcbiDir), Gene2EnsemblPath, OlderGeneRows)
        both == DictSet(MakeDir(mesh, NcbiDir), Gene2EnsemblPath, OlderGeneRows)
    IN  {EmptyDict, mesh, gene, both}

InitDownload ==
    /\ pc \in {"download_mesh", "download_gene2ensembl"}
    /\ force \in BOOLEAN
    /\ downloads = 0
    /\ files \in Caches
    /\ lines = <<>>
    /\ current = EmptyDict
    /\ records = <<>>
    /\ prefix = "C04.588"
    /\ mesh_hierarchy = <<>>
    /\ diseases = <<>>
    /\ filtered = <<>>
    /\ cancer_diseases = <<>>
    /\ associations = <<>>
    /\ crosswalk = <<>>
    /\ final = <<>>
    /\ gene2ensembl = <<>>
    /\ entrez_map = <<>>
    /\ output = <<>>
    /\ previous_output = <<>>

NextDownload ==
    \/ DownloadMesh
    \/ OpenMeshFile
    \/ DownloadGene2Ensembl
    \/ OpenGene2Ensembl
    \/ CallAgain

SpecDownload == InitDownload /\ [][NextDownload]_vars

(***************************************************************************)
(* Claims on the downloads                                                 *)
(***************************************************************************)

\* C22: a call that finds the cached file and is not forced requests nothing, leaves
\* every file as it is and returns the path; a call that finds no file, or is forced,
\* makes one request; no call makes more than one, and nothing but a call makes any.
C22_CachedFileReusedElseOneDownload ==
    [][/\ (pc = "download_mesh" /\ Exists(files, MeshPath) /\ ~force) =>
            (downloads' = downloads /\ files' = files /\ pc' = "mesh_path")
       /\ (pc = "download_mesh" /\ (~Exists(files, MeshPath) \/ force)) =>
            (downloads' = downloads + 1)
       /\ (pc = "download_gene2ensembl" /\ Exists(files, Gene2EnsemblPath) /\ ~force) =>
            (downloads' = downloads /\ files' = files /\ pc' = "gz_path")
       /\ (pc = "download_gene2ensembl" /\ (~Exists(files, Gene2EnsemblPath) \/ force)) =>
            (downloads' = downloads + 1)
       /\ (pc \notin {"download_mesh", "download_gene2ensembl"}) =>
            (downloads' = downloads \/ downloads' = 0)
       /\ downloads' <= 1]_vars

\* C22 witness: an unforced call of download_mesh has returned the path without a
\* request, and the older cached copy is still the file.
C22_Witness ==
    /\ pc = "mesh_path"
    /\ ~force
    /\ downloads = 0
    /\ files[MeshPath] = OlderMeshText

\* C23: a call whose download fails raises after its one request and the run does
\* nothing more; an unforced call that finds a file cut short at the cache path
\* requests nothing, leaves the file and returns its path, and the text or table
\* then read is the content of the file at the cache path, whatever it is.
C23_FailedDownloadFatalPartialFileReused ==
    [][/\ (pc' = "URLError") => (downloads' = 1)
       /\ (pc = "URLError") => (files' = files /\ downloads' = 0
                                  /\ pc' \in {"download_mesh", "download_gene2ensembl"})
       /\ (pc = "download_mesh" /\ ~force /\ Exists(files, MeshPath)
              /\ files[MeshPath] \in StrictPrefixes(MeshSource)) =>
            (downloads' = 0 /\ files' = files /\ pc' = "mesh_path")
       /\ (pc = "download_gene2ensembl" /\ ~force /\ Exists(files, Gene2EnsemblPath)
              /\ files[Gene2EnsemblPath] \in StrictPrefixes(Gene2EnsemblSource)) =>
            (downloads' = 0 /\ files' = files /\ pc' = "gz_path")
       /\ (pc = "mesh_path") => (lines' = files[MeshPath] /\ files' = files)
       /\ (pc = "gz_path") => (gene2ensembl' = files[Gene2EnsemblPath] /\ files' = files)]_vars

\* C23 witness: a later unforced run has made no request and has read the two lines
\* an earlier failed download left of the three-line descriptor file.
C23_Witness ==
    /\ pc = "mesh_opened"
    /\ ~force
    /\ downloads = 0
    /\ lines = <<"*NEWRECORD", "UI = D1">>
    /\ files[MeshPath] = lines

====
